---- MODULE Spec2Model ----
(***************************************************************************)
(* AdaptiveMindscape: the reflection/generation orchestration loop         *)
(* (server/routes.ts, class ReflectionEngine), the toy learning engine     *)
(* (server/neural-engine.ts, class NeuralEngine) and the storage adapters  *)
(* (server/storage.ts: MemStorage and DatabaseStorage).                    *)
(*                                                                         *)
(* Strings are sequences of one-character strings, so that toLowerCase,    *)
(* split and substring are computed as the code computes them.             *)
(***************************************************************************)
EXTENDS Integers, Sequences, FiniteSets, Bags, TLC

\* ------------------------------------------------------------------ bounds
\* longest text handed to tokenizeText
MaxTextLen == 4
\* most token_vocabulary rows the tokenizer specification lets the table hold
MaxTokenRows == 3

\* most sessions created
MaxSessions == 2
\* most reflection rows the storage specification lets the table hold
MaxReflectionRows == 2

\* most cycles asked for, over all start requests
MaxCycles == 2
\* storage calls that may fail, over a whole behaviour
MaxFailures == 1
\* largest token id the sampling of forwardPass is let to draw
MaxSampleId == 1
\* most messages handed to broadcast in the broadcast specification
MaxEvents == 3
\* rows and columns of a layer of the scaled-down network
ModelRows == 1
ModelCols == 2
\* most model_weights rows saved in the snapshot specification
MaxSnapshots == 3

\* -------------------------------------------------------- program constants
\* getSubwords: words of at most this length are a single subword
ShortWordLen == 3
\* getSubwords: longest candidate prefix
MaxSubwordLen == 8

\* start-reflection: the noise level used when the request gives none
DefaultNoiseLevel == 15
\* characters of the texts: a letter and a blank
Chars == {"a", " "}

VARIABLES
  vocabulary,       \* NeuralEngine.vocabulary of each engine instance: the Map
                    \* as the sequence of its entries in insertion order
  tokenVocabulary,  \* the token_vocabulary table: a bag of rows
  lastText,         \* argument of the latest tokenizeText call
  lastTokens,       \* its return value
  lastKnown,        \* were all its subwords in the vocabulary before it ran
  lastMinted,       \* vocabulary entries it registered (= rows it persisted)
  repeatKnown,      \* the latest call repeated the call before it, whose text was fully known
  calls,            \* 1 once a tokenizeText call has been made, 0 before
  storageImpl,      \* which `storage' is exported: "mem" (MemStorage) or "db" (DatabaseStorage)
  sessions,         \* the sessions table: the row of session id i at index i
  reflections,      \* the reflections table: a bag of rows
  dbCall,           \* DatabaseStorage.createReflection calls in flight
  isGenerating,     \* ReflectionEngine.isGenerating
  currentCycle,     \* ReflectionEngine.currentCycle
  session,          \* ReflectionEngine.session: a session id, 0 for null/undefined
  neuralEngine,     \* ReflectionEngine.neuralEngine: an engine instance, "null" before the first start
  run,              \* each startReflectionLoop call: its arguments, locals and the await it is suspended at
  trace,            \* per run, the rows it created and the events it broadcast, in order
  stopped,          \* per run, where it was when a stop request reached it: "none" (no request
                    \* since its start), "starting" (before its loop), "cycle" (with a cycle in flight)
  memoryInsights,   \* the memory_insights table: a bag of rows
  generatedContent, \* the generated_content table: a bag of rows
  modelWeights,     \* the model_weights table: a bag of rows
  trainingBatches,  \* the training_batches table: a bag of rows
  learningMetrics,  \* the learning_metrics table: a bag of rows
  engineSession,    \* NeuralEngine.sessionId of each engine instance
  currentEpoch,     \* NeuralEngine.currentEpoch of each engine instance
  failures,         \* storage calls that have failed so far
  weights,          \* NeuralEngine.weights of each engine instance: per layer the
                    \* shape <<rows, columns>> of its matrix
  biases,           \* NeuralEngine.biases of each engine instance: per layer the length
  fnCall,           \* a call of a pure function of the engine: its arguments and,
                    \* once it has returned, its result
  clients,          \* registerRoutes: the Set `clients' of WebSocket objects
  sockets,          \* each WebSocket object: its readyState and the messages sent to it
  published         \* the messages handed to broadcast so far, in order

tokVars == <<vocabulary, tokenVocabulary, lastText, lastTokens, lastKnown,
             lastMinted, repeatKnown, calls>>

stoVars == <<storageImpl, sessions, reflections, dbCall>>

engVars == <<isGenerating, currentCycle, session, neuralEngine>>

tabVars == <<memoryInsights, generatedContent, modelWeights, trainingBatches,
             learningMetrics>>

orchVars == <<engVars, run, trace, stopped, tabVars, engineSession, currentEpoch, failures>>

netVars == <<weights, biases>>

wsVars == <<clients, sockets, published>>

vars == <<tokVars, stoVars, orchVars, netVars, fnCall, wsVars>>

\* engine instances are named after the run that constructs them
Engines == {"r1", "r2"}
\* the engine the tokenizer specification drives, and its session
TokEngine == "r1"
TokSession == 1

\* ------------------------------------------------------------ text helpers
Min(a, b) == IF a < b THEN a ELSE b

\* String.prototype.toLowerCase, one character
LowerChar(c) == IF c = "A" THEN "a" ELSE c

ToLowerCase(text) == [i \in 1..Len(text) |-> LowerChar(text[i])]

\* String.prototype.substring(from) with a 0-based start
Substring(s, from) == SubSeq(s, from + 1, Len(s))

\* the characters \s matches, of those that occur in the texts
Whitespace == {" ", "\n"}

\* text.split(/\s+/): the fields between maximal runs of blanks; a leading or
\* trailing run leaves an empty field, and the empty text is one empty field
RECURSIVE SplitFrom(_, _, _)
SplitFrom(text, i, cur) ==
  IF i > Len(text) THEN <<cur>>
  ELSE IF text[i] \in Whitespace
       THEN IF i > 1 /\ text[i - 1] \in Whitespace
            THEN SplitFrom(text, i + 1, cur)
            ELSE <<cur>> \o SplitFrom(text, i + 1, <<>>)
       ELSE SplitFrom(text, i + 1, Append(cur, text[i]))

SplitWhitespace(text) == SplitFrom(text, 1, <<>>)

\* ------------------------------------------------- the vocabulary Map
VocabHas(vocab, subword) == \E i \in 1..Len(vocab) : vocab[i].token = subword

VocabGet(vocab, subword) ==
  (CHOOSE i \in 1..Len(vocab) : vocab[i].token = subword)
     \* Map.get of a present key
  \* (callers test VocabHas first: Map.get of an absent key is undefined)

VocabId(vocab, subword) == vocab[VocabGet(vocab, subword)].tokenId

\* Map.set: a present key keeps its place and takes the new value
VocabSet(vocab, subword, id) ==
  IF VocabHas(vocab, subword)
  THEN [vocab EXCEPT ![VocabGet(vocab, subword)].tokenId = id]
  ELSE Append(vocab, [token |-> subword, tokenId |-> id])

VocabSize(vocab) == Len(vocab)

\* ------------------------------------------------------------ getSubwords
\* the longest prefix of remaining, of length at most 8, that is in the
\* vocabulary; a single character when none is
BestSubwordShortest(vocab, remaining) ==
  LET lens == {len \in 1..Min(Len(remaining), MaxSubwordLen) :
                 VocabHas(vocab, SubSeq(remaining, 1, len)) \/ len = 1}
      best == CHOOSE len \in lens : \A other \in lens : len <= other
  IN SubSeq(remaining, 1, best)

BestSubword(vocab, remaining) ==
  LET lens == {len \in 1..Min(Len(remaining), MaxSubwordLen) :
                 VocabHas(vocab, SubSeq(remaining, 1, len)) \/ len = 1}
      best == CHOOSE len \in lens : \A other \in lens : other <= len
  IN SubSeq(remaining, 1, best)

RECURSIVE GreedySubwordsSkipping(_, _)
GreedySubwordsSkipping(vocab, remaining) ==
  IF Len(remaining) = 0 THEN <<>>
  ELSE LET bestSubword == BestSubword(vocab, remaining)
       IN <<bestSubword>> \o
          GreedySubwordsSkipping(vocab, Substring(remaining, Len(bestSubword) + 1))

\* the while loop: the best subword is pushed and cut off what remains
RECURSIVE GreedySubwords(_, _)
GreedySubwords(vocab, remaining) ==
  IF Len(remaining) = 0 THEN <<>>
  ELSE LET bestSubword == BestSubword(vocab, remaining)
       IN <<bestSubword>> \o
          GreedySubwords(vocab, Substring(remaining, Len(bestSubword)))

getSubwords(vocab, word) ==
  IF Len(word) <= ShortWordLen THEN <<word>> ELSE GreedySubwords(vocab, word)

\* ----------------------------------------------------------- tokenizeText
\* `if (!tokenId)': the looked-up id is undefined (absent key) or is 0
MissingAlways(vocab, subword) == TRUE

IsMissingTokenId(vocab, subword) ==
  \/ ~VocabHas(vocab, subword)
  \/ VocabId(vocab, subword) = 0

\* the body of the inner loop for one subword; st carries the vocabulary, the
\* tokens pushed so far and the rows handed to storage.createTokenVocabulary
TokenizeSubword(st, subword, sessionId) ==
  IF IsMissingTokenId(st.vocab, subword)
  THEN LET tokenId == VocabSize(st.vocab)
       IN [vocab  |-> VocabSet(st.vocab, subword, tokenId),
           tokens |-> Append(st.tokens, tokenId),
           rows   |-> Append(st.rows, [sessionId |-> sessionId,
                                       token |-> subword, tokenId |-> tokenId])]
  ELSE [st EXCEPT !.tokens = Append(@, VocabId(st.vocab, subword))]

RECURSIVE TokenizeSubwords(_, _, _)
TokenizeSubwords(st, subwords, sessionId) ==
  IF subwords = <<>> THEN st
  ELSE TokenizeSubwords(TokenizeSubword(st, Head(subwords), sessionId),
                        Tail(subwords), sessionId)

\* the outer loop: each word is segmented against the vocabulary as it stands
\* when the word is reached
RECURSIVE TokenizeWords(_, _, _)
TokenizeWords(st, words, sessionId) ==
  IF words = <<>> THEN st
  ELSE TokenizeWords(
         TokenizeSubwords(st, getSubwords(st.vocab, Head(words)), sessionId),
         Tail(words), sessionId)

tokenizeText(vocab, text, sessionId) ==
  TokenizeWords([vocab |-> vocab, tokens |-> <<>>, rows |-> <<>>],
                SplitWhitespace(ToLowerCase(text)), sessionId)

\* every subword the text splits into under vocab is an entry of vocab
RECURSIVE AllWordsKnown(_, _)
AllWordsKnown(vocab, words) ==
  \/ words = <<>>
  \/ /\ \A i \in 1..Len(getSubwords(vocab, Head(words))) :
          VocabHas(vocab, getSubwords(vocab, Head(words))[i])
     /\ AllWordsKnown(vocab, Tail(words))

FullyKnown(vocab, text) == AllWordsKnown(vocab, SplitWhitespace(ToLowerCase(text)))

RECURSIVE SeqToBag(_)
SeqToBag(s) == IF s = <<>> THEN EmptyBag ELSE SetToBag({Head(s)}) (+) SeqToBag(Tail(s))

\* the four layers of initializeWeights
Layers == <<"embedding", "attention", "feedforward", "output">>

LayerNames == {Layers[i] : i \in 1..Len(Layers)}

\* initializeWeights: `dimensions', <<rows, columns>> of each layer
Dimensions == [embedding |-> <<512, 128>>, attention |-> <<128, 128>>,
               feedforward |-> <<128, 256>>, output |-> <<256, 50257>>]

\* initializeWeights: a rows x columns matrix and a bias of `cols' entries
InitialWeights == [l \in LayerNames |-> Dimensions[l]]

InitialBiases == [l \in LayerNames |-> Dimensions[l][2]]

\* no call of a pure function made
NoFnCall == [fn |-> "none"]

\* the WebSocket objects the server may be handed by 'connection' events
Sockets == {"w1", "w2"}

\* registerRoutes has run and no client has connected
WsEmpty ==
  /\ clients = {}
  /\ sockets = [w \in Sockets |-> [readyState |-> "none", received |-> <<>>]]
  /\ published = <<>>

\* all texts of at most MaxTextLen characters
Texts == UNION {[1..n -> Chars] : n \in 0..MaxTextLen}

\* engines as constructed, no tokenizeText call made
TokEmpty ==
  /\ vocabulary = [e \in Engines |-> <<>>]
  /\ tokenVocabulary = EmptyBag
  /\ lastText = <<>>
  /\ lastTokens = <<>>
  /\ lastKnown = FALSE
  /\ lastMinted = 0
  /\ repeatKnown = FALSE
  /\ calls = 0
  /\ weights = [e \in Engines |-> InitialWeights]
  /\ biases = [e \in Engines |-> InitialBiases]


\* ------------------------------------------------------- the orchestrator
\* startReflectionLoop calls
Runs == {"r1", "r2"}

\* a run that has not been requested
IdleRun == [pc |-> "idle", sessionId |-> 0, userInput |-> <<>>,
            reflectionCycles |-> 0, noiseLevel |-> 0, cycle |-> 0,
            related |-> 0, engine |-> "null", previousReflections |-> EmptyBag,
            content |-> <<>>, wordCount |-> 0, savedWeights |-> EmptyBag]

\* the orchestrator and the tables it writes, as constructed
OrchEmpty ==
  /\ isGenerating = FALSE
  /\ currentCycle = 0
  /\ session = 0
  /\ neuralEngine = "null"
  /\ run = [r \in Runs |-> IdleRun]
  /\ trace = [r \in Runs |-> <<>>]
  /\ stopped = [r \in Runs |-> "none"]
  /\ memoryInsights = EmptyBag
  /\ generatedContent = EmptyBag
  /\ modelWeights = EmptyBag
  /\ trainingBatches = EmptyBag
  /\ learningMetrics = EmptyBag
  /\ engineSession = [e \in Engines |-> 0]
  /\ currentEpoch = [e \in Engines |-> 0]
  /\ failures = 0

\* ------------------------------------------------------------- the storage
\* callers that may have a DatabaseStorage.createReflection in flight
Callers == {"c1", "c2"}

NoCall == [pc |-> "idle", row |-> [sessionId |-> 0, cycle |-> 0, type |-> "none"],
           count |-> 0]

\* the storage as constructed: no session, no row, nothing in flight
StoEmpty ==
  /\ sessions = <<>>
  /\ reflections = EmptyBag
  /\ dbCall = [c \in Callers |-> NoCall]

StoIdle == storageImpl = "db" /\ StoEmpty

SessionExists(id) == id \in 1..Len(sessions)

\* rows of the reflections table that reference session id
ReflectionCount(table, id) ==
  BagCardinality([row \in {r \in BagToSet(table) : r.sessionId = id}
                    |-> CopiesIn(row, table)])

\* createSession (both storages): the next serial id, totalReflections 0
NewSession == [isActive |-> TRUE, endTime |-> "null", totalReflections |-> 0]

\* MemStorage.createReflection: store the row, then add one to the counter of
\* the session it names, if that session exists
MemCreateReflectionSessions(ss, row) ==
  IF row.sessionId \in 1..Len(ss)
  THEN [ss EXCEPT ![row.sessionId].totalReflections = @ + 1]
  ELSE ss

\* the rows a caller may hand to createReflection
ReflectionInputs ==
  [sessionId : 1..MaxSessions, cycle : {1}, type : {"analysis"}]

\* the bodies PUT /api/sessions/:id may carry (updates: Partial<Session>)
SessionUpdates ==
  {[field |-> "isActive", value |-> b] : b \in BOOLEAN}
    \cup {[field |-> "totalReflections", value |-> n] : n \in 0..MaxReflectionRows}

\* { ...session, ...updates }
ApplyUpdate(sessionRow, update) ==
  IF update.field = "isActive"
  THEN [sessionRow EXCEPT !.isActive = update.value]
  ELSE [sessionRow EXCEPT !.totalReflections = update.value]

StoInit ==
  /\ storageImpl \in {"mem", "db"}
  /\ StoEmpty
  /\ TokEmpty
  /\ OrchEmpty
  /\ fnCall = NoFnCall
  /\ WsEmpty

CreateSession ==
  /\ Len(sessions) < MaxSessions
  /\ sessions' = Append(sessions, NewSession)
  /\ UNCHANGED <<wsVars, netVars, fnCall, storageImpl, reflections, dbCall, tokVars, orchVars>>

\* MemStorage.createReflection: no await inside, one step
MemCreateReflection(row) ==
  /\ storageImpl = "mem"
  /\ BagCardinality(reflections) < MaxReflectionRows
  /\ reflections' = reflections (+) SetToBag({row})
  /\ sessions' = MemCreateReflectionSessions(sessions, row)
  /\ UNCHANGED <<wsVars, netVars, fnCall, storageImpl, dbCall, tokVars, orchVars>>

\* the rows a caller may hand to createMemoryInsight
InsightInputs ==
  [sessionId : 1..MaxSessions, type : {"learning"}, related : {0}]

CreateMemoryInsightReplacing(row) ==
  /\ BagCardinality(memoryInsights) < MaxReflectionRows
  /\ storageImpl = "db" => SessionExists(row.sessionId)
  /\ memoryInsights' = SetToBag({row})
  /\ UNCHANGED <<wsVars, netVars, fnCall, stoVars, tokVars, engVars, run, trace, stopped,
                 generatedContent, modelWeights, trainingBatches, learningMetrics,
                 engineSession, currentEpoch, failures>>

\* createMemoryInsight of either storage: one insert (session_id references
\* sessions.id in the database)
CreateMemoryInsight(row) ==
  /\ BagCardinality(memoryInsights) < MaxReflectionRows
  /\ storageImpl = "db" => SessionExists(row.sessionId)
  /\ memoryInsights' = memoryInsights (+) SetToBag({row})
  /\ UNCHANGED <<wsVars, netVars, fnCall, stoVars, tokVars, engVars, run, trace, stopped,
                 generatedContent, modelWeights, trainingBatches, learningMetrics,
                 engineSession, currentEpoch, failures>>

\* DatabaseStorage.createReflection, first statement: insert the row
\* (session_id references sessions.id, so the session must exist)
DbInsertReflection(c, row) ==
  /\ storageImpl = "db"
  /\ dbCall[c].pc = "idle"
  /\ SessionExists(row.sessionId)
  /\ BagCardinality(reflections) < MaxReflectionRows
  /\ reflections' = reflections (+) SetToBag({row})
  /\ dbCall' = [dbCall EXCEPT ![c] = [pc |-> "inserted", row |-> row, count |-> 0]]
  /\ UNCHANGED <<wsVars, netVars, fnCall, storageImpl, sessions, tokVars, orchVars>>

\* second statement: select the session's rows
DbCountReflections(c) ==
  /\ dbCall[c].pc = "inserted"
  /\ dbCall' = [dbCall EXCEPT ![c].pc = "counted",
                              ![c].count = ReflectionCount(reflections, dbCall[c].row.sessionId)]
  /\ UNCHANGED <<wsVars, netVars, fnCall, storageImpl, sessions, reflections, tokVars, orchVars>>

\* third statement: set totalReflections to the number of rows selected
DbUpdateTotal(c) ==
  /\ dbCall[c].pc = "counted"
  /\ sessions' = [sessions EXCEPT ![dbCall[c].row.sessionId].totalReflections = dbCall[c].count]
  /\ dbCall' = [dbCall EXCEPT ![c] = NoCall]
  /\ UNCHANGED <<wsVars, netVars, fnCall, storageImpl, reflections, tokVars, orchVars>>

\* updateSession(id, updates), both storages
UpdateSession(id, update) ==
  /\ SessionExists(id)
  /\ sessions' = [sessions EXCEPT ![id] = ApplyUpdate(@, update)]
  /\ UNCHANGED <<wsVars, netVars, fnCall, storageImpl, reflections, dbCall, tokVars, orchVars>>

\* endSession(id), both storages
EndSession(id) ==
  /\ SessionExists(id)
  /\ sessions' = [sessions EXCEPT ![id].isActive = FALSE, ![id].endTime = "date"]
  /\ UNCHANGED <<wsVars, netVars, fnCall, storageImpl, reflections, dbCall, tokVars, orchVars>>

StoNext ==
  \/ CreateSession
  \/ \E row \in ReflectionInputs : MemCreateReflection(row)
  \/ \E c \in Callers, row \in ReflectionInputs : DbInsertReflection(c, row)
  \/ \E c \in Callers : DbCountReflections(c)
  \/ \E c \in Callers : DbUpdateTotal(c)
  \/ \E id \in 1..MaxSessions, update \in SessionUpdates : UpdateSession(id, update)
  \/ \E id \in 1..MaxSessions : EndSession(id)

StoSpec == StoInit /\ [][StoNext]_vars

\* the storage operations that write reflections, memory insights and their
\* sessions, called one at a time
RowsNext ==
  \/ CreateSession
  \/ \E row \in ReflectionInputs : MemCreateReflection(row)
  \/ \E row \in ReflectionInputs : DbInsertReflection("c1", row)
  \/ DbCountReflections("c1")
  \/ DbUpdateTotal("c1")
  \/ \E row \in InsightInputs : CreateMemoryInsight(row)
  \/ \E id \in 1..MaxSessions, update \in {u \in SessionUpdates : u.field = "isActive"} :
        UpdateSession(id, update)
  \/ \E id \in 1..MaxSessions : EndSession(id)

RowsSpec == StoInit /\ [][RowsNext]_vars

\* no createReflection call is part-way through
Quiescent == \A c \in Callers : dbCall[c].pc = "idle"

\* C8: whenever no createReflection call is in flight, each session's
\* totalReflections equals the number of reflection rows that reference it.
C8_TotalReflectionsMatchesRows ==
  Quiescent =>
    \A id \in 1..Len(sessions) :
       sessions[id].totalReflections = ReflectionCount(reflections, id)


\* ------------------------------------------- the orchestrator: operators
\* one entry of a run's trace: a row created (op "create"), an event
\* broadcast (op "broadcast"), a call made (op "call") or an error thrown
Entry(op, what, type, cycle) ==
  [op |-> op, what |-> what, type |-> type, cycle |-> cycle,
   words |-> 0, content |-> <<>>]

\* broadcast({ type: 'generation', data: { content, isComplete, metrics } })
GenerationEvent(isComplete, words, content) ==
  [op |-> "broadcast", what |-> "generation",
   type |-> IF isComplete THEN "complete" ELSE "partial", cycle |-> 0,
   words |-> words, content |-> content]

StrategyAlways(cycle) == "strategy"

\* createStrategyReflection: type: cycle === 1 ? 'strategy' : 'refinement'
StrategyType(cycle) == IF cycle = 1 THEN "strategy" ELSE "refinement"

\* generateMemoryInsight: the array `types'
InsightTypes == <<"pattern_recognition", "learning", "optimization",
                  "adaptation", "correction", "enhancement">>

InsightTypeOffByOne(draw) ==
  IF draw + 2 > Len(InsightTypes) THEN "undefined" ELSE InsightTypes[draw + 2]

\* types[Math.floor(Math.random() * types.length)], Math.random() = draw / 6
InsightTypeOf(draw) == InsightTypes[((draw * Len(InsightTypes)) \div 6) + 1]

\* the values Math.floor(Math.random() * types.length) takes
RandomDraws == 0..(Len(InsightTypes) - 1)

\* the first and the last of them
EdgeDraws == {0, Len(InsightTypes) - 1}

\* the noise levels a start request may carry
NoiseLevels == {0, DefaultNoiseLevel}

\* the user inputs a start request may carry
UserInputs == {<<"a">>}

\* the ids sampleFromLogits may return
SampleIds == 0..MaxSampleId

\* generateTemplateContent: the fixed fallback text, cut down to a heading, the
\* line break after it and two words of the first paragraph
TemplateContent == <<"t", "\n", "t", " ", "t">>

\* fullContent.split(' '): a field between every two blanks
RECURSIVE SplitSpaceFrom(_, _, _)
SplitSpaceFrom(text, i, cur) ==
  IF i > Len(text) THEN <<cur>>
  ELSE IF text[i] = " "
       THEN <<cur>> \o SplitSpaceFrom(text, i + 1, <<>>)
       ELSE SplitSpaceFrom(text, i + 1, Append(cur, text[i]))

SplitSpace(text) == SplitSpaceFrom(text, 1, <<>>)

\* words.join(' ')
RECURSIVE JoinSpace(_)
JoinSpace(words) ==
  IF words = <<>> THEN <<>>
  ELSE IF Len(words) = 1 THEN words[1]
  ELSE words[1] \o <<" ">> \o JoinSpace(Tail(words))

\* detokenize: each id gives the first vocabulary entry that carries it, an
\* id no entry carries gives nothing
RECURSIVE DetokenizeWords(_, _)
DetokenizeWords(vocab, tokens) ==
  IF tokens = <<>> THEN <<>>
  ELSE LET hits == {i \in 1..Len(vocab) : vocab[i].tokenId = Head(tokens)}
           first == CHOOSE i \in hits : \A j \in hits : i <= j
       IN (IF hits = {} THEN <<>> ELSE <<vocab[first].token>>)
            \o DetokenizeWords(vocab, Tail(tokens))

detokenizeKeeping(vocab, tokens) ==
  JoinSpace([i \in 1..Len(tokens) |->
               IF \E j \in 1..Len(vocab) : vocab[j].tokenId = tokens[i]
               THEN DetokenizeWords(vocab, <<tokens[i]>>)[1]
               ELSE <<"?">>])

detokenize(vocab, tokens) == JoinSpace(DetokenizeWords(vocab, tokens))

\* the texts forwardPass may return for tokens: one sampled id per token
ForwardPassOutputs(vocab, tokens) ==
  {detokenize(vocab, out) : out \in [1..Len(tokens) -> SampleIds]}

\* tokenizeText whose first storage call fails: vocabulary.set has run for the
\* first subword if its id was missing, and nothing was persisted
TokenizeFailing(vocab, text) ==
  LET words == SplitWhitespace(ToLowerCase(text))
      subword == getSubwords(vocab, words[1])[1]
  IN IF IsMissingTokenId(vocab, subword)
     THEN VocabSet(vocab, subword, VocabSize(vocab))
     ELSE vocab

\* the orders a query may return the rows of a bag in
RECURSIVE Arrangements(_)
Arrangements(bag) ==
  IF BagToSet(bag) = {} THEN {<<>>}
  ELSE UNION {{<<x>> \o rest : rest \in Arrangements(bag (-) SetToBag({x}))} :
              x \in BagToSet(bag)}

\* rows of a table that carry session id
RowsOfSession(table, id) ==
  [row \in {x \in BagToSet(table) : x.sessionId = id} |-> CopiesIn(row, table)]

RestoreVocabularyNothing(vocab, savedTokens) == vocab

\* loadWeights, `Restore vocabulary': Map.set for each saved row in turn
RECURSIVE RestoreVocabulary(_, _)
RestoreVocabulary(vocab, savedTokens) ==
  IF savedTokens = <<>> THEN vocab
  ELSE RestoreVocabulary(
         VocabSet(vocab, Head(savedTokens).token, Head(savedTokens).tokenId),
         Tail(savedTokens))

\* loadWeights, `Restore weights': each saved record of a layer overwrites
\* the layer, so the layer ends as the record that comes last; the records of
\* one layer may come in any order
RestoreLayer(current, savedWeights, layer, field) ==
  LET saved == {row[field] : row \in {x \in BagToSet(savedWeights) : x.layerName = layer}}
  IN IF saved = {} THEN {current[layer]} ELSE saved

RestoreWeights(current, savedWeights, field) ==
  {f \in [LayerNames -> UNION {RestoreLayer(current, savedWeights, l, field) : l \in LayerNames}] :
     \A l \in LayerNames : f[l] \in RestoreLayer(current, savedWeights, l, field)}

\* DatabaseStorage.createReflection as one statement: the row, and the
\* session's totalReflections set to the number of its rows
StoreReflection(row) ==
  /\ reflections' = reflections (+) SetToBag({row})
  /\ sessions' = [sessions EXCEPT ![row.sessionId].totalReflections =
                    ReflectionCount(reflections (+) SetToBag({row}), row.sessionId)]

ReflectionRow(r, type) ==
  [sessionId |-> run[r].sessionId, cycle |-> run[r].cycle, type |-> type]

\* the awaits of one cycle, from the loop test to the delay
CyclePcs == {"getReflections", "getRecentInsights", "createAnalysis",
             "createMemory", "createStrategy", "createNoise", "createInsight",
             "gpt", "tokenize", "saveWeights", "createTrainingBatch",
             "createLearningMetrics", "delay"}

\* the awaits before the loop
StartPcs == {"getSession", "getModelWeights", "getTokenVocabulary", "createUserInput"}

\* the awaits of generateFinalContent
FinalPcs == {"finalGetReflections", "finalGetSession", "finalTokenize",
             "stream", "createContent"}

\* awaited storage calls whose failure rejects startReflectionLoop
RejectingPcs == {"getModelWeights", "getTokenVocabulary", "createUserInput",
                 "getReflections", "getRecentInsights", "createAnalysis",
                 "createMemory", "createStrategy", "createNoise",
                 "createInsight", "finalGetReflections", "finalGetSession",
                 "createContent"}

\* awaited storage calls inside the try block of trainStep
TrainStepPcs == {"tokenize", "saveWeights", "createTrainingBatch",
                 "createLearningMetrics"}

Active(r) == run[r].pc \notin {"idle", "done", "failed"}

EnterLoopNoFinal(r, c) ==
  IF c <= run[r].reflectionCycles
  THEN IF isGenerating
       THEN /\ currentCycle' = c
            /\ run' = [run EXCEPT ![r].cycle = c, ![r].pc = "getReflections"]
       ELSE /\ run' = [run EXCEPT ![r].pc = "done"]
            /\ UNCHANGED currentCycle
  ELSE /\ run' = [run EXCEPT ![r].pc = "finalGetReflections"]
       /\ UNCHANGED currentCycle

\* the loop test `cycle <= reflectionCycles && this.isGenerating' for cycle c
\* and what follows it: the next cycle's first await, or generateFinalContent's
EnterLoop(r, c) ==
  IF c <= run[r].reflectionCycles /\ isGenerating
  THEN /\ currentCycle' = c
       /\ run' = [run EXCEPT ![r].cycle = c, ![r].pc = "getReflections"]
  ELSE /\ run' = [run EXCEPT ![r].pc = "finalGetReflections"]
       /\ UNCHANGED currentCycle

\* generateMemoryInsight up to its await: this.currentCycle is read here
IssueInsight(r) ==
  run' = [run EXCEPT ![r].related = currentCycle, ![r].pc = "createInsight"]

\* the streaming loop of generateFinalContent up to its first await
BeginStream(r, fullContent) ==
  /\ run' = [run EXCEPT ![r].content = fullContent, ![r].wordCount = 1,
                        ![r].pc = "stream"]
  /\ trace' = [trace EXCEPT ![r] =
                 Append(@, GenerationEvent(FALSE, 1, SplitSpace(fullContent)[1]))]

\* ------------------------------------------- the tokenizer specification
TokInit ==
  /\ TokEmpty
  /\ StoIdle
  /\ OrchEmpty
  /\ fnCall = NoFnCall
  /\ WsEmpty

\* one tokenizeText(text) call on the engine
TokenizeCall(text) ==
  \E res \in {tokenizeText(vocabulary[TokEngine], text, TokSession)} :
     /\ BagCardinality(tokenVocabulary) + Len(res.rows) <= MaxTokenRows
     /\ vocabulary' = [vocabulary EXCEPT ![TokEngine] = res.vocab]
     /\ tokenVocabulary' = tokenVocabulary (+) SeqToBag(res.rows)
     /\ lastText' = text
     /\ lastTokens' = res.tokens
     /\ lastKnown' = FullyKnown(vocabulary[TokEngine], text)
     /\ lastMinted' = Len(res.rows)
     /\ repeatKnown' = (calls > 0 /\ text = lastText /\ lastKnown)
     /\ calls' = 1
     /\ UNCHANGED <<stoVars, orchVars, netVars, fnCall, wsVars>>

TokNext == \E text \in Texts : TokenizeCall(text)

TokSpec == TokInit /\ [][TokNext]_vars

\* ------------------------------------------------ the forward pass alone
\* forwardPass(tokens): generateOutput samples one id per input token,
\* detokenize turns the sampled ids into the returned text
ForwardPass(tokens, sampled) ==
  /\ fnCall = NoFnCall
  /\ fnCall' = [fn |-> "forwardPass", tokens |-> tokens, sampled |-> sampled,
                returned |-> detokenize(vocabulary[TokEngine], sampled)]
  /\ UNCHANGED <<tokVars, stoVars, orchVars, netVars, wsVars>>

\* the token sequences handed to forwardPass: what tokenizeText returned,
\* and no token at all
ForwardInputs == {lastTokens, <<>>}

\* getSubwords(word) on the vocabulary as it stands
GetSubwords(word) ==
  /\ fnCall = NoFnCall
  /\ fnCall' = [fn |-> "getSubwords", word |-> word,
                returned |-> getSubwords(vocabulary[TokEngine], word)]
  /\ UNCHANGED <<tokVars, stoVars, orchVars, netVars, wsVars>>

\* tokenizeText calls build the vocabulary, then forwardPass or getSubwords
\* is called once
ForwardNext ==
  \/ \E text \in Texts : fnCall = NoFnCall /\ TokenizeCall(text)
  \/ \E word \in {text \in Texts : \A i \in 1..Len(text) : text[i] \notin Whitespace} :
        GetSubwords(word)
  \/ \E tokens \in ForwardInputs :
        \E sampled \in [1..Len(tokens) -> SampleIds] : ForwardPass(tokens, sampled)

ForwardSpec == TokInit /\ [][ForwardNext]_vars

\* -------------------------------------------------------- the loss function
\* modelTokens[i] || '': the field at 0-based position i - 1, '' past the end
TokenAt(tokens, i) == IF i <= Len(tokens) THEN tokens[i] ELSE <<>>

\* Math.max
Max(a, b) == IF a >= b THEN a ELSE b

\* the positions, up to maxLen, at which the two token arrays differ
Mismatches(modelTokens, targetTokens, maxLen) ==
  {i \in 1..maxLen : TokenAt(modelTokens, i) # TokenAt(targetTokens, i)}

calculateLossUnnormalized(modelOutput, gptTarget) ==
  LET modelTokens == SplitSpace(modelOutput)
      targetTokens == SplitSpace(gptTarget)
      maxLen == Max(Len(modelTokens), Len(targetTokens))
  IN <<Cardinality(Mismatches(modelTokens, targetTokens, maxLen)), 1>>

\* calculateLoss: loss / maxLen, kept as the pair <<loss, maxLen>>
calculateLoss(modelOutput, gptTarget) ==
  LET modelTokens == SplitSpace(modelOutput)
      targetTokens == SplitSpace(gptTarget)
      maxLen == Max(Len(modelTokens), Len(targetTokens))
  IN <<Cardinality(Mismatches(modelTokens, targetTokens, maxLen)), maxLen>>

\* an engine about to be asked for the loss of any two texts
LossInit ==
  /\ TokEmpty
  /\ StoIdle
  /\ OrchEmpty
  /\ fnCall \in {[fn |-> "calculateLoss", modelOutput |-> x, gptTarget |-> y,
                   returned |-> FALSE, loss |-> <<0, 1>>] : x \in Texts, y \in Texts}
  /\ WsEmpty

\* calculateLoss(modelOutput, gptTarget) returns
CalculateLoss ==
  /\ fnCall.fn = "calculateLoss"
  /\ ~fnCall.returned
  /\ fnCall' = [fnCall EXCEPT !.returned = TRUE,
                              !.loss = calculateLoss(fnCall.modelOutput, fnCall.gptTarget)]
  /\ UNCHANGED <<tokVars, stoVars, orchVars, netVars, wsVars>>

LossNext == CalculateLoss

LossSpec == LossInit /\ [][LossNext]_vars

\* ------------------------------------------------- the weight update alone
\* JavaScript numbers: NaN, or a value counted in thousandths of the unit
\* the gradients are counted in
NaN == [nan |-> TRUE, val |-> 0]

Num(n) == [nan |-> FALSE, val |-> n]

Times(a, b) == IF a.nan \/ b.nan THEN NaN ELSE Num(a.val * b.val)

Minus(a, b) == IF a.nan \/ b.nan THEN NaN ELSE Num(a.val - b.val)

\* x || 0 for a number x: 0 and NaN are falsy
OrZero(x) == IF x.nan \/ x.val = 0 THEN Num(0) ELSE x

\* ToNumber of an array of numbers, by way of its join(','): '' is 0, one
\* number is itself, several are not a number
ArrayToNumber(array) ==
  IF Len(array) = 0 THEN Num(0)
  ELSE IF Len(array) = 1 THEN array[1]
  ELSE NaN

\* learningRate = 0.001, in thousandths
LearningRateMilli == 1

\* the values (Math.random() - 0.5) * loss * 0.01 may take, two of them
GradientDraws == {-1, 1}

\* what calculateGradients draws for one layer: a value for every weight and
\* for every bias
LayerDraws ==
  [weights : [1..ModelRows -> [1..ModelCols -> GradientDraws]],
   biases : [1..ModelCols -> GradientDraws]]

\* calculateGradients: gradients[layerName] is the matrix of the draws,
\* gradients[layerName + '_bias'] an array holding the array of the draws
calculateGradients(draws) ==
  [l \in LayerNames |->
     [weights |-> [i \in 1..ModelRows |-> [j \in 1..ModelCols |->
                     Num(draws[l].weights[i][j])]],
      bias |-> <<[i \in 1..ModelCols |-> Num(draws[l].biases[i])]>>]]

\* biasGradients[i] || 0 at 0-based index i - 1, made a number by `*'
BiasGradientAt(biasGradients, i) ==
  IF i <= Len(biasGradients) THEN ArrayToNumber(biasGradients[i]) ELSE Num(0)

\* the two loops of updateWeights for one layer
updateLayer(layerWeights, layerBiases, gradients) ==
  [weights |-> [i \in 1..Len(layerWeights) |-> [j \in 1..Len(layerWeights[i]) |->
                  Minus(layerWeights[i][j],
                        Times(Num(LearningRateMilli), OrZero(gradients.weights[i][j])))]],
   biases |-> [i \in 1..Len(layerBiases) |->
                 Minus(layerBiases[i],
                       Times(Num(LearningRateMilli),
                             BiasGradientAt(gradients.bias, i)))]]

\* initializeWeights on the scaled-down network, every entry drawn as start
StartLayer(start) ==
  [weights |-> [i \in 1..ModelRows |-> [j \in 1..ModelCols |-> Num(start)]],
   biases |-> [i \in 1..ModelCols |-> Num(start)]]

GradInit ==
  /\ TokEmpty
  /\ StoIdle
  /\ OrchEmpty
  /\ fnCall \in {[fn |-> "updateWeights", returned |-> FALSE,
                   before |-> [l \in LayerNames |-> StartLayer(start)],
                   draws |-> [l \in LayerNames |-> StartLayer(0)],
                   after |-> [l \in LayerNames |-> StartLayer(start)]] :
                    start \in {0, 1}}
  /\ WsEmpty

\* updateWeights up to its save: calculateGradients draws, every layer is
\* updated in place
UpdateWeightsCall ==
  /\ fnCall.fn = "updateWeights"
  /\ ~fnCall.returned
  /\ \E draws \in [LayerNames -> LayerDraws] :
       \E gradients \in {calculateGradients(draws)} :
         fnCall' = [fnCall EXCEPT
                      !.returned = TRUE,
                      !.draws = draws,
                      !.after = [l \in LayerNames |->
                                   updateLayer(fnCall.before[l].weights,
                                               fnCall.before[l].biases, gradients[l])]]
  /\ UNCHANGED <<tokVars, stoVars, orchVars, netVars, wsVars>>

GradNext == UpdateWeightsCall

GradSpec == GradInit /\ [][GradNext]_vars

\* ------------------------------------------------- the saved snapshots alone
\* the layers snapshots are saved of, and the values that stand for the
\* contents of a saved matrix, bias vector and learning rate
SnapshotLayers == {Layers[1], Layers[2]}
SnapshotValues == {1, 2}

\* the engine after its constructor: initializeWeights and learningRate = 0.001
\* (0 stands for the freshly drawn matrix and bias)
NewEngine ==
  [weights |-> [l \in LayerNames |-> 0], biases |-> [l \in LayerNames |-> 0],
   learningRate |-> LearningRateMilli]

\* DatabaseStorage.createModelWeights: a row is inserted, last_updated
\* defaults to now() (the time of the k-th insert is k)
CreateModelWeights(layerName, w, b, learningRate) ==
  /\ fnCall = NoFnCall \/ fnCall.fn \in {"createModelWeights", "loadWeights"}
  /\ \E rows \in {IF fnCall = NoFnCall THEN <<>> ELSE fnCall.rows} :
        /\ Len(rows) < MaxSnapshots
        /\ fnCall' = [fn |-> "createModelWeights",
                      rows |-> Append(rows, [layerName |-> layerName, weights |-> w,
                                             biases |-> b, learningRate |-> learningRate,
                                             lastUpdated |-> Len(rows) + 1])]
  /\ UNCHANGED <<tokVars, stoVars, orchVars, netVars, wsVars>>

\* DatabaseStorage.getModelWeightsBySession: orderBy(desc(lastUpdated))
RECURSIVE OrderByDescLastUpdated(_)
OrderByDescLastUpdated(rows) ==
  IF rows = {} THEN <<>>
  ELSE LET first == CHOOSE x \in rows : \A y \in rows : y.lastUpdated <= x.lastUpdated
       IN <<first>> \o OrderByDescLastUpdated(rows \ {first})

getModelWeightsBySession(rows) ==
  OrderByDescLastUpdated({rows[i] : i \in 1..Len(rows)})

\* loadWeights, `Restore weights': for (const weightRecord of savedWeights)
RECURSIVE RestoreSnapshots(_, _)
RestoreSnapshots(engine, savedWeights) ==
  IF savedWeights = <<>> THEN engine
  ELSE LET weightRecord == Head(savedWeights)
       IN RestoreSnapshots(
            [weights |-> [engine.weights EXCEPT ![weightRecord.layerName] = weightRecord.weights],
             biases |-> [engine.biases EXCEPT ![weightRecord.layerName] = weightRecord.biases],
             learningRate |-> IF weightRecord.learningRate # 0
                              THEN weightRecord.learningRate ELSE engine.learningRate],
            Tail(savedWeights))

\* new NeuralEngine(sessionId) and loadWeights on the rows saved so far
LoadWeightsCall ==
  /\ fnCall # NoFnCall
  /\ fnCall.fn = "createModelWeights"
  /\ fnCall' = [fn |-> "loadWeights", rows |-> fnCall.rows,
                engine |-> RestoreSnapshots(NewEngine, getModelWeightsBySession(fnCall.rows))]
  /\ UNCHANGED <<tokVars, stoVars, orchVars, netVars, wsVars>>

\* snapshots are saved one after another; at any time a new engine loads
\* what has been saved
SnapNext ==
  \/ \E layerName \in SnapshotLayers, w \in SnapshotValues, b \in SnapshotValues,
        learningRate \in SnapshotValues :
        CreateModelWeights(layerName, w, b, learningRate)
  \/ LoadWeightsCall

SnapSpec == TokInit /\ [][SnapNext]_vars


\* --------------------------------------------- the orchestrator: actions
\* POST /api/sessions/:id/start-reflection: startReflectionLoop runs up to
\* `await storage.getSession(sessionId)'
Start(r, sessionId, userInput, reflectionCycles, noiseLevel) ==
  /\ run[r].pc = "idle"
  /\ r = "r2" => run["r1"].pc # "idle"
  /\ run' = [run EXCEPT ![r] = [IdleRun EXCEPT !.pc = "getSession",
                                   !.sessionId = sessionId,
                                   !.userInput = userInput,
                                   !.reflectionCycles = reflectionCycles,
                                   !.noiseLevel = noiseLevel]]
  /\ UNCHANGED <<wsVars, netVars, fnCall, tokVars, stoVars, engVars, trace, stopped, tabVars,
                 engineSession, currentEpoch, failures>>

SessionNotFoundLate(r) ==
  /\ run[r].pc = "getSession"
  /\ ~SessionExists(run[r].sessionId)
  /\ session' = 0
  /\ currentCycle' = 0
  /\ isGenerating' = TRUE
  /\ run' = [run EXCEPT ![r].pc = "failed"]
  /\ trace' = [trace EXCEPT ![r] = Append(@, Entry("throw", "error", "Session not found", 0))]
  /\ UNCHANGED <<wsVars, netVars, fnCall, tokVars, stoVars, neuralEngine,
                 stopped, tabVars, engineSession, currentEpoch, failures>>

\* getSession finds no row: `throw new Error('Session not found')'
SessionNotFound(r) ==
  /\ run[r].pc = "getSession"
  /\ ~SessionExists(run[r].sessionId)
  /\ session' = 0
  /\ run' = [run EXCEPT ![r].pc = "failed"]
  /\ trace' = [trace EXCEPT ![r] = Append(@, Entry("throw", "error", "Session not found", 0))]
  /\ UNCHANGED <<wsVars, netVars, fnCall, tokVars, stoVars, isGenerating, currentCycle, neuralEngine,
                 stopped, tabVars, engineSession, currentEpoch, failures>>

\* getSession returns the row: a new NeuralEngine is constructed and
\* loadWeights runs up to getModelWeightsBySession
GetSession(r) ==
  /\ run[r].pc = "getSession"
  /\ SessionExists(run[r].sessionId)
  /\ session' = run[r].sessionId
  /\ neuralEngine' = r
  /\ vocabulary' = [vocabulary EXCEPT ![r] = <<>>]
  /\ engineSession' = [engineSession EXCEPT ![r] = run[r].sessionId]
  /\ currentEpoch' = [currentEpoch EXCEPT ![r] = 0]
  /\ weights' = [weights EXCEPT ![r] = InitialWeights]
  /\ biases' = [biases EXCEPT ![r] = InitialBiases]
  /\ run' = [run EXCEPT ![r].pc = "getModelWeights"]
  /\ UNCHANGED <<wsVars, fnCall, tokenVocabulary, lastText, lastTokens, lastKnown, lastMinted,
                 repeatKnown, calls, stoVars, isGenerating, currentCycle,
                 trace, stopped, tabVars, failures>>

\* loadWeights: getModelWeightsBySession returns, getTokenVocabularyBySession is awaited
GetModelWeights(r) ==
  /\ run[r].pc = "getModelWeights"
  /\ run' = [run EXCEPT ![r].savedWeights = RowsOfSession(modelWeights, engineSession[r]),
                        ![r].pc = "getTokenVocabulary"]
  /\ UNCHANGED <<wsVars, netVars, fnCall, tokVars, stoVars, engVars, trace, stopped, tabVars,
                 engineSession, currentEpoch, failures>>

\* loadWeights: the saved tokens arrive (all have frequency 1, so in any
\* order) and are restored; back in startReflectionLoop currentCycle and
\* isGenerating are set and the user_input reflection is awaited
GetTokenVocabulary(r) ==
  /\ run[r].pc = "getTokenVocabulary"
  /\ \E savedTokens \in Arrangements(RowsOfSession(tokenVocabulary, run[r].sessionId)) :
        vocabulary' = [vocabulary EXCEPT ![r] = RestoreVocabulary(@, savedTokens)]
  /\ \E w \in RestoreWeights(weights[r], run[r].savedWeights, "weights") :
        weights' = [weights EXCEPT ![r] = w]
  /\ \E b \in RestoreWeights(biases[r], run[r].savedWeights, "biases") :
        biases' = [biases EXCEPT ![r] = b]
  /\ currentCycle' = 0
  /\ isGenerating' = TRUE
  /\ run' = [run EXCEPT ![r].savedWeights = EmptyBag, ![r].pc = "createUserInput"]
  /\ UNCHANGED <<wsVars, fnCall, tokenVocabulary, lastText, lastTokens, lastKnown, lastMinted,
                 repeatKnown, calls, stoVars, session, neuralEngine, trace,
                 stopped, tabVars, engineSession, currentEpoch, failures>>

\* the user_input reflection is stored; the loop is entered with cycle = 1
CreateUserInput(r) ==
  /\ run[r].pc = "createUserInput"
  /\ StoreReflection(ReflectionRow(r, "user_input"))
  /\ trace' = [trace EXCEPT ![r] = Append(@, Entry("create", "reflection", "user_input", 0))]
  /\ EnterLoop(r, 1)
  /\ UNCHANGED <<wsVars, netVars, fnCall, tokVars, storageImpl, dbCall, isGenerating, session,
                 neuralEngine, stopped, tabVars, engineSession, currentEpoch,
                 failures>>

GetReflectionsOfLastCycle(r) ==
  /\ run[r].pc = "getReflections"
  /\ run' = [run EXCEPT ![r].previousReflections =
                           [row \in {x \in BagToSet(reflections) :
                                       /\ x.sessionId = run[r].sessionId
                                       /\ x.cycle = run[r].cycle - 1} |->
                              CopiesIn(row, reflections)],
                        ![r].pc = "getRecentInsights"]
  /\ UNCHANGED <<wsVars, netVars, fnCall, tokVars, stoVars, engVars, trace, stopped, tabVars,
                 engineSession, currentEpoch, failures>>

\* performReflectionCycle: getReflectionsBySession returns the rows of the
\* session
GetReflections(r) ==
  /\ run[r].pc = "getReflections"
  /\ run' = [run EXCEPT ![r].previousReflections =
                           RowsOfSession(reflections, run[r].sessionId),
                        ![r].pc = "getRecentInsights"]
  /\ UNCHANGED <<wsVars, netVars, fnCall, tokVars, stoVars, engVars, trace, stopped, tabVars,
                 engineSession, currentEpoch, failures>>

\* getRecentMemoryInsights(10) returns; createAnalysisReflection awaits its row
GetRecentInsights(r) ==
  /\ run[r].pc = "getRecentInsights"
  /\ run' = [run EXCEPT ![r].pc = "createAnalysis"]
  /\ UNCHANGED <<wsVars, netVars, fnCall, tokVars, stoVars, engVars, trace, stopped, tabVars,
                 engineSession, currentEpoch, failures>>

BroadcastAndStore(r, type) ==
  /\ StoreReflection(ReflectionRow(r, type))
  /\ trace' = [trace EXCEPT ![r] = @ \o
                 <<Entry("broadcast", "reflection", type, run[r].cycle),
                   Entry("create", "reflection", type, run[r].cycle)>>]

\* a reflection of the cycle is stored and its event broadcast
StoreAndBroadcast(r, type) ==
  /\ StoreReflection(ReflectionRow(r, type))
  /\ trace' = [trace EXCEPT ![r] = @ \o
                 <<Entry("create", "reflection", type, run[r].cycle),
                   Entry("broadcast", "reflection", type, run[r].cycle)>>]

CreateAnalysis(r) ==
  /\ run[r].pc = "createAnalysis"
  /\ StoreAndBroadcast(r, "analysis")
  /\ run' = [run EXCEPT ![r].pc = "createMemory"]
  /\ UNCHANGED <<wsVars, netVars, fnCall, tokVars, storageImpl, dbCall, engVars, stopped, tabVars,
                 engineSession, currentEpoch, failures>>

CreateMemory(r) ==
  /\ run[r].pc = "createMemory"
  /\ StoreAndBroadcast(r, "memory_recall")
  /\ run' = [run EXCEPT ![r].pc = "createStrategy"]
  /\ UNCHANGED <<wsVars, netVars, fnCall, tokVars, storageImpl, dbCall, engVars, stopped, tabVars,
                 engineSession, currentEpoch, failures>>

\* the strategy/refinement reflection; then the noise reflection is awaited
\* if noiseLevel > 0, the memory insight otherwise
CreateStrategy(r) ==
  /\ run[r].pc = "createStrategy"
  /\ StoreAndBroadcast(r, StrategyType(run[r].cycle))
  /\ IF run[r].noiseLevel > 0
     THEN run' = [run EXCEPT ![r].pc = "createNoise"]
     ELSE IssueInsight(r)
  /\ UNCHANGED <<wsVars, netVars, fnCall, tokVars, storageImpl, dbCall, engVars, stopped, tabVars,
                 engineSession, currentEpoch, failures>>

CreateNoise(r) ==
  /\ run[r].pc = "createNoise"
  /\ StoreAndBroadcast(r, "noise_injection")
  /\ IssueInsight(r)
  /\ UNCHANGED <<wsVars, netVars, fnCall, tokVars, storageImpl, dbCall, engVars, stopped, tabVars,
                 engineSession, currentEpoch, failures>>

\* the memory insight is stored and broadcast; updatePerformanceMetrics
\* broadcasts; trainStep is called on this.neuralEngine and awaits the
\* reference generation
CreateInsight(r, draw) ==
  /\ run[r].pc = "createInsight"
  /\ memoryInsights' = memoryInsights (+)
        SetToBag({[sessionId |-> run[r].sessionId,
                   type |-> InsightTypeOf(draw),
                   related |-> run[r].related]})
  /\ trace' = [trace EXCEPT ![r] = @ \o
                 <<Entry("create", "memory_insight", "", run[r].cycle),
                   Entry("broadcast", "memory_insight", "", run[r].cycle),
                   Entry("broadcast", "performance_update", "cycle", run[r].cycle),
                   Entry("call", "trainStep", "", run[r].cycle)>>]
  /\ run' = [run EXCEPT ![r].engine = neuralEngine, ![r].pc = "gpt"]
  /\ UNCHANGED <<wsVars, netVars, fnCall, tokVars, stoVars, engVars, stopped, generatedContent,
                 modelWeights, trainingBatches, learningMetrics,
                 engineSession, currentEpoch, failures>>

\* trainStep: the reference generation arrives; tokenizeText is awaited
GptResponds(r) ==
  /\ run[r].pc = "gpt"
  /\ run' = [run EXCEPT ![r].pc = "tokenize"]
  /\ UNCHANGED <<wsVars, netVars, fnCall, tokVars, stoVars, engVars, trace, stopped, tabVars,
                 engineSession, currentEpoch, failures>>

\* trainStep: the reference generation fails; the catch block logs and
\* trainStep returns, the loop awaits its delay
GptUnavailableThrows(r) ==
  /\ run[r].pc = "gpt"
  /\ run' = [run EXCEPT ![r].pc = "failed"]
  /\ trace' = [trace EXCEPT ![r] = Append(@, Entry("throw", "error", "gpt", run[r].cycle))]
  /\ UNCHANGED <<wsVars, netVars, fnCall, tokVars, stoVars, engVars, stopped, tabVars,
                 engineSession, currentEpoch, failures>>

GptUnavailable(r) ==
  /\ run[r].pc = "gpt"
  /\ run' = [run EXCEPT ![r].pc = "delay"]
  /\ trace' = [trace EXCEPT ![r] = Append(@, Entry("catch", "error", "gpt", run[r].cycle))]
  /\ UNCHANGED <<wsVars, netVars, fnCall, tokVars, stoVars, engVars, stopped, tabVars,
                 engineSession, currentEpoch, failures>>

\* trainStep: tokenizeText returns; forwardPass, calculateLoss and the
\* in-memory update run; saveWeightsToDatabase is awaited
Tokenize(r) ==
  /\ run[r].pc = "tokenize"
  /\ \E e \in {run[r].engine} :
     \E res \in {tokenizeText(vocabulary[e], run[r].userInput, engineSession[e])} :
        /\ vocabulary' = [vocabulary EXCEPT ![e] = res.vocab]
        /\ tokenVocabulary' = tokenVocabulary (+) SeqToBag(res.rows)
  /\ trace' = [trace EXCEPT ![r] = Append(@, Entry("call", "tokenizeText", "", run[r].cycle))]
  /\ run' = [run EXCEPT ![r].pc = "saveWeights"]
  /\ UNCHANGED <<wsVars, netVars, fnCall, lastText, lastTokens, lastKnown, lastMinted, repeatKnown,
                 calls, stoVars, engVars, stopped, tabVars, engineSession,
                 currentEpoch, failures>>

WeightRowsSwapped(e, n) ==
  SeqToBag([i \in 1..n |-> [sessionId |-> engineSession[e], layerName |-> Layers[i],
                            weights |-> <<weights[e][Layers[i]][2],
                                          weights[e][Layers[i]][1]>>,
                            biases |-> biases[e][Layers[i]],
                            learningRate |-> LearningRateMilli]])

WeightRowsLastLayer(e, n) ==
  SetToBag({[sessionId |-> engineSession[e], layerName |-> Layers[n],
             weights |-> weights[e][Layers[n]],
             biases |-> biases[e][Layers[n]],
             learningRate |-> LearningRateMilli]})

\* saveWeightsToDatabase: one createModelWeights row per layer
WeightRows(e, n) ==
  SeqToBag([i \in 1..n |-> [sessionId |-> engineSession[e], layerName |-> Layers[i],
                            weights |-> weights[e][Layers[i]],
                            biases |-> biases[e][Layers[i]],
                            learningRate |-> LearningRateMilli]])

SaveWeights(r) ==
  /\ run[r].pc = "saveWeights"
  /\ modelWeights' = modelWeights (+) WeightRows(run[r].engine, Len(Layers))
  /\ trace' = [trace EXCEPT ![r] = Append(@, Entry("create", "model_weights", "", run[r].cycle))]
  /\ run' = [run EXCEPT ![r].pc = "createTrainingBatch"]
  /\ UNCHANGED <<wsVars, netVars, fnCall, tokVars, stoVars, engVars, stopped, memoryInsights,
                 generatedContent, trainingBatches, learningMetrics,
                 engineSession, currentEpoch, failures>>

CreateTrainingBatch(r) ==
  /\ run[r].pc = "createTrainingBatch"
  /\ trainingBatches' = trainingBatches (+)
        SetToBag({[sessionId |-> engineSession[run[r].engine]]})
  /\ trace' = [trace EXCEPT ![r] = Append(@, Entry("create", "training_batch", "", run[r].cycle))]
  /\ run' = [run EXCEPT ![r].pc = "createLearningMetrics"]
  /\ UNCHANGED <<wsVars, netVars, fnCall, tokVars, stoVars, engVars, stopped, memoryInsights,
                 generatedContent, modelWeights, learningMetrics,
                 engineSession, currentEpoch, failures>>

\* the metrics row (epoch: this.currentEpoch++), the performance_update of
\* trainStep, and back in the loop the delay is awaited
CreateLearningMetrics(r) ==
  /\ run[r].pc = "createLearningMetrics"
  /\ LET e == run[r].engine
     IN /\ learningMetrics' = learningMetrics (+)
              SetToBag({[sessionId |-> engineSession[e], epoch |-> currentEpoch[e]]})
        /\ currentEpoch' = [currentEpoch EXCEPT ![e] = @ + 1]
  /\ trace' = [trace EXCEPT ![r] = @ \o
                 <<Entry("create", "learning_metrics", "", run[r].cycle),
                   Entry("broadcast", "performance_update", "train", run[r].cycle)>>]
  /\ run' = [run EXCEPT ![r].pc = "delay"]
  /\ UNCHANGED <<wsVars, netVars, fnCall, tokVars, stoVars, engVars, stopped, memoryInsights,
                 generatedContent, modelWeights, trainingBatches,
                 engineSession, failures>>

\* the delay between cycles ends: cycle++ and the loop test
Delay(r) ==
  /\ run[r].pc = "delay"
  /\ EnterLoop(r, run[r].cycle + 1)
  /\ UNCHANGED <<wsVars, netVars, fnCall, tokVars, stoVars, isGenerating, session, neuralEngine, trace,
                 stopped, tabVars, engineSession, currentEpoch, failures>>

\* generateFinalContent: getReflectionsBySession returns
FinalGetReflections(r) ==
  /\ run[r].pc = "finalGetReflections"
  /\ run' = [run EXCEPT ![r].pc = "finalGetSession"]
  /\ UNCHANGED <<wsVars, netVars, fnCall, tokVars, stoVars, engVars, trace, stopped, tabVars,
                 engineSession, currentEpoch, failures>>

\* getSession returns; tokenizeText is awaited on this.neuralEngine
FinalGetSession(r) ==
  /\ run[r].pc = "finalGetSession"
  /\ run' = [run EXCEPT ![r].engine = neuralEngine, ![r].pc = "finalTokenize"]
  /\ UNCHANGED <<wsVars, netVars, fnCall, tokVars, stoVars, engVars, trace, stopped, tabVars,
                 engineSession, currentEpoch, failures>>

\* tokenizeText returns, forwardPass gives the final content, and the first
\* word is streamed
FinalTokenize(r) ==
  /\ run[r].pc = "finalTokenize"
  /\ \E e \in {run[r].engine} :
     \E res \in {tokenizeText(vocabulary[e], run[r].userInput, engineSession[e])} :
        /\ vocabulary' = [vocabulary EXCEPT ![e] = res.vocab]
        /\ tokenVocabulary' = tokenVocabulary (+) SeqToBag(res.rows)
        /\ \E fullContent \in ForwardPassOutputs(res.vocab, res.tokens) :
              BeginStream(r, fullContent)
  /\ UNCHANGED <<wsVars, netVars, fnCall, lastText, lastTokens, lastKnown, lastMinted, repeatKnown,
                 calls, stoVars, engVars, stopped, tabVars, engineSession,
                 currentEpoch, failures>>

StreamLastWord(r) ==
  /\ run[r].pc = "stream"
  /\ LET words == SplitSpace(run[r].content)
         n == run[r].wordCount
     IN IF n < Len(words)
        THEN /\ run' = [run EXCEPT ![r].wordCount = n + 1]
             /\ trace' = [trace EXCEPT ![r] = Append(@,
                            GenerationEvent(FALSE, n + 1, words[n + 1]))]
        ELSE /\ run' = [run EXCEPT ![r].pc = "createContent"]
             /\ trace' = [trace EXCEPT ![r] = Append(@,
                            GenerationEvent(TRUE, n, run[r].content))]
  /\ UNCHANGED <<wsVars, netVars, fnCall, tokVars, stoVars, engVars, stopped, tabVars, engineSession,
                 currentEpoch, failures>>

\* the typing delay ends: the next word is streamed, or after the last word
\* the complete event is broadcast and createGeneratedContent is awaited
Stream(r) ==
  /\ run[r].pc = "stream"
  /\ LET words == SplitSpace(run[r].content)
         n == run[r].wordCount
     IN IF n < Len(words)
        THEN /\ run' = [run EXCEPT ![r].wordCount = n + 1]
             /\ trace' = [trace EXCEPT ![r] = Append(@,
                            GenerationEvent(FALSE, n + 1, JoinSpace(SubSeq(words, 1, n + 1))))]
        ELSE /\ run' = [run EXCEPT ![r].pc = "createContent"]
             /\ trace' = [trace EXCEPT ![r] = Append(@,
                            GenerationEvent(TRUE, n, run[r].content))]
  /\ UNCHANGED <<wsVars, netVars, fnCall, tokVars, stoVars, engVars, stopped, tabVars, engineSession,
                 currentEpoch, failures>>

\* Math.random() in hundredths: the lowest and the highest value
RandomPercents == {0, 99}

\* Math.floor(base + Math.random() * span)
FloorScore(base, span, random) == base + (random * span) \div 100

\* the three Math.random() calls of the stored row
ScoreDraws ==
  [quality : RandomPercents, coherence : RandomPercents, goalAlignment : RandomPercents]

\* all three at their lowest
LowDraws == [quality |-> 0, coherence |-> 0, goalAlignment |-> 0]

CreateContentLost(r, draws) ==
  /\ run[r].pc = "createContent"
  /\ generatedContent' = generatedContent
  /\ trace' = [trace EXCEPT ![r] = Append(@, Entry("create", "generated_content", "complete", 0))]
  /\ run' = [run EXCEPT ![r].pc = "done"]
  /\ UNCHANGED <<wsVars, netVars, fnCall, tokVars, stoVars, engVars, stopped, memoryInsights,
                 modelWeights, trainingBatches, learningMetrics,
                 engineSession, currentEpoch, failures>>

\* the generated_content row is stored; startReflectionLoop resolves
CreateContent(r, draws) ==
  /\ run[r].pc = "createContent"
  /\ generatedContent' = generatedContent (+)
        SetToBag({[sessionId |-> run[r].sessionId, content |-> run[r].content,
                   isComplete |-> TRUE,
                   qualityScore |-> FloorScore(90, 10, draws.quality),
                   coherenceScore |-> FloorScore(85, 15, draws.coherence),
                   goalAlignment |-> FloorScore(80, 20, draws.goalAlignment)]})
  /\ trace' = [trace EXCEPT ![r] = Append(@, Entry("create", "generated_content", "complete", 0))]
  /\ run' = [run EXCEPT ![r].pc = "done"]
  /\ UNCHANGED <<wsVars, netVars, fnCall, tokVars, stoVars, engVars, stopped, memoryInsights,
                 modelWeights, trainingBatches, learningMetrics,
                 engineSession, currentEpoch, failures>>

FailRunSwallowed(r) ==
  /\ failures < MaxFailures
  /\ run[r].pc \in RejectingPcs \cup {"getSession"}
  /\ failures' = failures + 1
  /\ run' = [run EXCEPT ![r].pc = IF run[r].pc \in CyclePcs THEN "delay" ELSE "failed"]
  /\ trace' = [trace EXCEPT ![r] = Append(@, Entry("throw", "error", run[r].pc, run[r].cycle))]
  /\ UNCHANGED <<wsVars, netVars, fnCall, tokVars, stoVars, engVars, stopped, tabVars, engineSession,
                 currentEpoch>>

\* an awaited storage call outside every inner try block fails: the error
\* leaves startReflectionLoop
FailRun(r) ==
  /\ failures < MaxFailures
  /\ run[r].pc \in RejectingPcs \cup {"getSession"}
  /\ failures' = failures + 1
  /\ run' = [run EXCEPT ![r].pc = "failed"]
  /\ trace' = [trace EXCEPT ![r] = Append(@, Entry("throw", "error", run[r].pc, run[r].cycle))]
  /\ UNCHANGED <<wsVars, netVars, fnCall, tokVars, stoVars, engVars, stopped, tabVars, engineSession,
                 currentEpoch>>

\* a storage call inside trainStep fails: its catch block logs, trainStep
\* returns and the loop awaits its delay
FailTrainStep(r) ==
  /\ failures < MaxFailures
  /\ run[r].pc \in TrainStepPcs
  /\ failures' = failures + 1
  /\ LET e == run[r].engine
     IN /\ vocabulary' = IF run[r].pc = "tokenize"
                         THEN [vocabulary EXCEPT ![e] = TokenizeFailing(@, run[r].userInput)]
                         ELSE vocabulary
        /\ \E saved \in 0..(Len(Layers) - 1) :
              modelWeights' = IF run[r].pc = "saveWeights"
                              THEN modelWeights (+) WeightRows(e, saved)
                              ELSE modelWeights
  /\ run' = [run EXCEPT ![r].pc = "delay"]
  /\ trace' = [trace EXCEPT ![r] = Append(@, Entry("catch", "error", run[r].pc, run[r].cycle))]
  /\ UNCHANGED <<wsVars, netVars, fnCall, tokenVocabulary, lastText, lastTokens, lastKnown, lastMinted,
                 repeatKnown, calls, stoVars, engVars, stopped,
                 memoryInsights, generatedContent, trainingBatches,
                 learningMetrics, engineSession, currentEpoch>>

\* a storage call of the final tokenizeText fails: the catch block of
\* generateFinalContent takes the template text, whose first word is streamed
FailFinalTokenizeThrows(r) ==
  /\ failures < MaxFailures
  /\ run[r].pc = "finalTokenize"
  /\ failures' = failures + 1
  /\ vocabulary' = [vocabulary EXCEPT ![run[r].engine] = TokenizeFailing(@, run[r].userInput)]
  /\ run' = [run EXCEPT ![r].pc = "failed"]
  /\ trace' = [trace EXCEPT ![r] = Append(@, Entry("throw", "error", run[r].pc, run[r].cycle))]
  /\ UNCHANGED <<wsVars, netVars, fnCall, tokenVocabulary, lastText, lastTokens, lastKnown, lastMinted,
                 repeatKnown, calls, stoVars, engVars, stopped, tabVars,
                 engineSession, currentEpoch>>

FailFinalTokenize(r) ==
  /\ failures < MaxFailures
  /\ run[r].pc = "finalTokenize"
  /\ failures' = failures + 1
  /\ vocabulary' = [vocabulary EXCEPT ![run[r].engine] = TokenizeFailing(@, run[r].userInput)]
  /\ BeginStream(r, TemplateContent)
  /\ UNCHANGED <<wsVars, netVars, fnCall, tokenVocabulary, lastText, lastTokens, lastKnown, lastMinted,
                 repeatKnown, calls, stoVars, engVars, stopped, tabVars,
                 engineSession, currentEpoch>>

\* POST /api/sessions/:id/stop-reflection: reflectionEngine.stop()
Stop ==
  /\ isGenerating' = FALSE
  /\ stopped' = [r \in Runs |->
                   IF run[r].pc \in CyclePcs THEN "cycle"
                   ELSE IF run[r].pc \in StartPcs /\ stopped[r] = "none" THEN "starting"
                   ELSE stopped[r]]
  /\ UNCHANGED <<wsVars, netVars, fnCall, tokVars, stoVars, currentCycle, session, neuralEngine, run,
                 trace, tabVars, engineSession, currentEpoch, failures>>

\* POST /api/sessions/:id/stop-reflection for session sessionId: the handler
\* never reads req.params.id
StopReflection(sessionId) == Stop

\* the session ids a start request may name: the sessions created and one
\* id past them; the first request's session is called 1
StartSessionIds(r) ==
  IF r = "r1" THEN {1, MaxSessions + 1} ELSE 1..(MaxSessions + 1)

\* the cycles the requests made so far have asked for
RECURSIVE CyclesAsked(_)
CyclesAsked(rs) ==
  IF rs = {} THEN 0
  ELSE LET r == CHOOSE x \in rs : TRUE
       IN run[r].reflectionCycles + CyclesAsked(rs \ {r})

StartNext(r, noiseLevels) ==
  \E sessionId \in StartSessionIds(r), userInput \in UserInputs,
     reflectionCycles \in 0..(MaxCycles - CyclesAsked(Runs)),
     noiseLevel \in noiseLevels :
     Start(r, sessionId, userInput, reflectionCycles, noiseLevel)

\* the steps of a run whose collaborators answer; the scores of the stored
\* content are drawn at their lowest
RunNext(r) ==
  \/ SessionNotFound(r)
  \/ GetSession(r)
  \/ GetModelWeights(r)
  \/ GetTokenVocabulary(r)
  \/ CreateUserInput(r)
  \/ GetReflections(r)
  \/ GetRecentInsights(r)
  \/ CreateAnalysis(r)
  \/ CreateMemory(r)
  \/ CreateStrategy(r)
  \/ CreateNoise(r)
  \/ GptResponds(r)
  \/ Tokenize(r)
  \/ SaveWeights(r)
  \/ CreateTrainingBatch(r)
  \/ CreateLearningMetrics(r)
  \/ Delay(r)
  \/ FinalGetReflections(r)
  \/ FinalGetSession(r)
  \/ FinalTokenize(r)
  \/ Stream(r)
  \/ CreateContent(r, LowDraws)

FailNext(r) ==
  \/ FailRun(r)
  \/ FailTrainStep(r)
  \/ FailFinalTokenize(r)

\* the server with MaxSessions sessions created and no request made
Init ==
  /\ TokEmpty
  /\ storageImpl = "db"
  /\ sessions = [i \in 1..MaxSessions |-> NewSession]
  /\ reflections = EmptyBag
  /\ dbCall = [c \in Callers |-> NoCall]
  /\ OrchEmpty
  /\ fnCall = NoFnCall
  /\ WsEmpty

\* one start request, every outcome of the random draws, a reference
\* generation that answers or not, storage calls that succeed, stop requests
\* at any time
Next ==
  \/ StartNext("r1", NoiseLevels)
  \/ RunNext("r1")
  \/ \E draw \in RandomDraws : CreateInsight("r1", draw)
  \/ GptUnavailable("r1")
  \/ Stop

Spec == Init /\ [][Next]_vars

\* one start request with the default noise level, up to MaxFailures storage
\* calls that fail
FailSpecNext ==
  \/ StartNext("r1", {DefaultNoiseLevel})
  \/ RunNext("r1")
  \/ \E draw \in EdgeDraws : CreateInsight("r1", draw)
  \/ GptUnavailable("r1")
  \/ FailNext("r1")

FailSpec == Init /\ [][FailSpecNext]_vars

\* two start requests in flight together, with the default noise level,
\* collaborators that answer and the first insight type drawn
ConcNext ==
  \/ \E r \in Runs : StartNext(r, {DefaultNoiseLevel})
  \/ \E r \in Runs : RunNext(r)
  \/ \E r \in Runs : CreateInsight(r, 0)
  \/ Stop

ConcSpec == Init /\ [][ConcNext]_vars

\* loops of two sessions: a one-cycle loop for session 1 and, started while it
\* is in flight, a loop of MaxCycles cycles for session 2, both without noise
\* and with a reference generation that does not answer; stop requests are
\* made for session 1 only
IndepNext ==
  \/ \E userInput \in UserInputs : Start("r1", 1, userInput, 1, 0)
  \/ \E userInput \in UserInputs : Start("r2", 2, userInput, MaxCycles, 0)
  \/ \E r \in Runs :
        \/ GetSession(r) \/ GetModelWeights(r) \/ GetTokenVocabulary(r)
        \/ CreateUserInput(r) \/ GetReflections(r) \/ GetRecentInsights(r)
        \/ CreateAnalysis(r) \/ CreateMemory(r) \/ CreateStrategy(r)
        \/ CreateInsight(r, 0) \/ GptUnavailable(r) \/ Delay(r)
        \/ FinalGetReflections(r) \/ FinalGetSession(r) \/ FinalTokenize(r)
        \/ Stream(r) \/ CreateContent(r, LowDraws)
  \/ StopReflection(1)

IndepSpec == Init /\ [][IndepNext]_vars

\* a session that is resumed: a loop runs to its end, then a second start
\* request is made for session 1; collaborators answer
ResumeNext ==
  \/ \E sessionId \in StartSessionIds("r1"), userInput \in UserInputs,
        reflectionCycles \in 1..MaxCycles, noiseLevel \in NoiseLevels :
        Start("r1", sessionId, userInput, reflectionCycles, noiseLevel)
  \/ \E userInput \in UserInputs :
        run["r1"].pc = "done" /\ Start("r2", 1, userInput, 1, 0)
  \/ \E r \in Runs : RunNext(r)
  \/ \E r \in Runs : CreateInsight(r, 0)

ResumeSpec == Init /\ [][ResumeNext]_vars

\* one start request whose storage calls all succeed; the run is scheduled
\* as long as it has a step to take (every await it makes is answered)
LiveNext ==
  \/ StartNext("r1", NoiseLevels)
  \/ RunNext("r1")
  \/ \E draw \in EdgeDraws : CreateInsight("r1", draw)
  \/ GptUnavailable("r1")
  \/ Stop

Progress(r) ==
  \/ RunNext(r)
  \/ \E draw \in EdgeDraws : CreateInsight(r, draw)
  \/ GptUnavailable(r)

LiveSpec == Init /\ [][LiveNext]_vars /\ WF_vars(Progress("r1"))

\* ------------------------------------------------------- the broadcast
\* wss.on('connection'): the socket is OPEN and is added to clients
Connect(w) ==
  /\ sockets[w].readyState = "none"
  /\ sockets' = [sockets EXCEPT ![w].readyState = "OPEN"]
  /\ clients' = clients \cup {w}
  /\ UNCHANGED <<published, tokVars, stoVars, orchVars, netVars, fnCall>>

\* the connection starts to close: readyState leaves OPEN before the 'close'
\* event is emitted
BeginClose(w) ==
  /\ sockets[w].readyState = "OPEN"
  /\ sockets' = [sockets EXCEPT ![w].readyState = "CLOSING"]
  /\ UNCHANGED <<clients, published, tokVars, stoVars, orchVars, netVars, fnCall>>

\* ws.on('close'): the socket is CLOSED and is deleted from clients
OnClose(w) ==
  /\ sockets[w].readyState = "CLOSING"
  /\ sockets' = [sockets EXCEPT ![w].readyState = "CLOSED"]
  /\ clients' = clients \ {w}
  /\ UNCHANGED <<published, tokVars, stoVars, orchVars, netVars, fnCall>>

BroadcastToAll(message) ==
  /\ Len(published) < MaxEvents
  /\ published' = Append(published, message)
  /\ sockets' = [w \in Sockets |->
                   IF w \in clients
                   THEN [sockets[w] EXCEPT !.received = Append(@, message)]
                   ELSE sockets[w]]
  /\ UNCHANGED <<clients, tokVars, stoVars, orchVars, netVars, fnCall>>

\* broadcast(message): client.send for every client whose readyState is OPEN
Broadcast(message) ==
  /\ Len(published) < MaxEvents
  /\ published' = Append(published, message)
  /\ sockets' = [w \in Sockets |->
                   IF w \in clients /\ sockets[w].readyState = "OPEN"
                   THEN [sockets[w] EXCEPT !.received = Append(@, message)]
                   ELSE sockets[w]]
  /\ UNCHANGED <<clients, tokVars, stoVars, orchVars, netVars, fnCall>>

\* clients that connect and disconnect at any time while the orchestrator
\* publishes its events, the k-th of which is called k
WsNext ==
  \/ \E w \in Sockets : Connect(w)
  \/ \E w \in Sockets : BeginClose(w)
  \/ \E w \in Sockets : OnClose(w)
  \/ Broadcast(Len(published) + 1)

WsSpec == Init /\ [][WsNext]_vars

\* ------------------------------------- the persistence round trip
\* the engine that saves, the fresh engine that loads, and a session other
\* than theirs
SavingEngine == TokEngine
FreshEngine == "r2"
OtherSession == TokSession + 1

\* new NeuralEngine(sessionId) for the saving engine
Construct ==
  /\ engineSession[SavingEngine] = 0
  /\ engineSession' = [engineSession EXCEPT ![SavingEngine] = TokSession]
  /\ vocabulary' = [vocabulary EXCEPT ![SavingEngine] = <<>>]
  /\ weights' = [weights EXCEPT ![SavingEngine] = InitialWeights]
  /\ biases' = [biases EXCEPT ![SavingEngine] = InitialBiases]
  /\ UNCHANGED <<wsVars, fnCall, tokenVocabulary, lastText, lastTokens, lastKnown, lastMinted,
                 repeatKnown, calls, stoVars, engVars, run, trace, stopped, tabVars,
                 currentEpoch, failures>>

\* the saving engine has been constructed and the fresh one has not
Saving == engineSession[SavingEngine] = TokSession /\ engineSession[FreshEngine] = 0

\* the texts the saving engine is given: the shorter half of Texts
PersistTexts == {text \in Texts : 2 * Len(text) <= MaxTextLen}

\* tokenizeText(text) on the saving engine
PersistTokenize == Saving /\ \E text \in PersistTexts : TokenizeCall(text)

\* an engine of another session stores its first token
TokenizeElsewhere ==
  /\ Saving
  /\ RowsOfSession(tokenVocabulary, OtherSession) = EmptyBag
  /\ BagCardinality(tokenVocabulary) < MaxTokenRows
  /\ tokenVocabulary' = tokenVocabulary (+)
        SeqToBag(tokenizeText(<<>>, <<"a">>, OtherSession).rows)
  /\ UNCHANGED <<wsVars, netVars, fnCall, vocabulary, lastText, lastTokens, lastKnown, lastMinted,
                 repeatKnown, calls, stoVars, orchVars>>

\* updateWeights on the saving engine: every element of every layer is
\* updated in place, and saveWeightsToDatabase stores one row per layer
\* updateWeights: the update in memory, then saveWeightsToDatabase
UpdateWeights ==
  /\ Saving
  /\ BagCardinality(modelWeights) < MaxCycles * Len(Layers)
  /\ modelWeights' = modelWeights (+) WeightRows(SavingEngine, Len(Layers))
  /\ UNCHANGED <<wsVars, netVars, fnCall, tokVars, stoVars, engVars, run, trace, stopped,
                 memoryInsights, generatedContent, trainingBatches, learningMetrics,
                 engineSession, currentEpoch, failures>>

\* new NeuralEngine(sessionId) and loadWeights on the fresh engine
LoadWeights ==
  /\ Saving
  /\ engineSession' = [engineSession EXCEPT ![FreshEngine] = TokSession]
  /\ \E savedTokens \in Arrangements(RowsOfSession(tokenVocabulary, TokSession)) :
        vocabulary' = [vocabulary EXCEPT ![FreshEngine] = RestoreVocabulary(<<>>, savedTokens)]
  /\ \E savedWeights \in {RowsOfSession(modelWeights, TokSession)} :
        /\ \E w \in RestoreWeights(InitialWeights, savedWeights, "weights") :
              weights' = [weights EXCEPT ![FreshEngine] = w]
        /\ \E b \in RestoreWeights(InitialBiases, savedWeights, "biases") :
              biases' = [biases EXCEPT ![FreshEngine] = b]
  /\ UNCHANGED <<wsVars, fnCall, tokenVocabulary, lastText, lastTokens, lastKnown, lastMinted,
                 repeatKnown, calls, stoVars, engVars, run, trace, stopped, tabVars,
                 currentEpoch, failures>>

PersistNext ==
  \/ Construct
  \/ PersistTokenize
  \/ TokenizeElsewhere
  \/ UpdateWeights
  \/ LoadWeights

PersistSpec == TokInit /\ [][PersistNext]_vars

\* cycle counts of a request body for which the loop body never runs
NoCycles == {-1, 0}

\* finalization alone: one start request that asks for no cycle, for a
\* session with any user input, whose final tokenizeText succeeds or fails
GenNext ==
  \/ \E userInput \in Texts, reflectionCycles \in NoCycles :
        Start("r1", 1, userInput, reflectionCycles, 0)
  \/ GetSession("r1")
  \/ GetModelWeights("r1")
  \/ GetTokenVocabulary("r1")
  \/ CreateUserInput("r1")
  \/ FinalGetReflections("r1")
  \/ FinalGetSession("r1")
  \/ FinalTokenize("r1")
  \/ FailFinalTokenize("r1")
  \/ Stream("r1")
  \/ \E draws \in ScoreDraws : CreateContent("r1", draws)

GenSpec == Init /\ [][GenNext]_vars

\* ------------------------------------------- claims about the orchestrator
\* entries of a trace that match
CountIn(tr, op, what, type, cycle) ==
  Cardinality({i \in 1..Len(tr) :
                 /\ tr[i].op = op /\ tr[i].what = what
                 /\ tr[i].type = type /\ tr[i].cycle = cycle})

\* positions of a trace that match
IndexesOf(tr, op, what, cycle) ==
  {i \in 1..Len(tr) : tr[i].op = op /\ tr[i].what = what /\ tr[i].cycle = cycle}

\* reflections a run created, of one type and cycle
Created(r, type, cycle) == CountIn(trace[r], "create", "reflection", type, cycle)

NoiseCount(r) == IF run[r].noiseLevel > 0 THEN 1 ELSE 0

\* C1: a run that ended without failing and that no stop request reached
\* has created exactly one user_input reflection of cycle 0 and, for each
\* cycle c in 1..reflectionCycles, exactly one analysis, one memory_recall,
\* one strategy (c = 1) or refinement (c > 1) reflection, and one
\* noise_injection reflection if and only if noiseLevel > 0; nothing else.
C1_ExactReflectionsPerRun ==
  \A r \in Runs :
    (run[r].pc = "done" /\ stopped[r] = "none") =>
       /\ Created(r, "user_input", 0) = 1
       /\ \A c \in 1..run[r].reflectionCycles :
             /\ Created(r, "analysis", c) = 1
             /\ Created(r, "memory_recall", c) = 1
             /\ Created(r, "strategy", c) = (IF c = 1 THEN 1 ELSE 0)
             /\ Created(r, "refinement", c) = (IF c > 1 THEN 1 ELSE 0)
             /\ Created(r, "noise_injection", c) = NoiseCount(r)
             /\ Created(r, "user_input", c) = 0
       /\ Cardinality({i \in 1..Len(trace[r]) :
                         trace[r][i].op = "create" /\ trace[r][i].what = "reflection"})
            = 1 + run[r].reflectionCycles * (3 + NoiseCount(r))

\* an unstopped run of two cycles with noise has ended
C1_Witness ==
  \E r \in Runs :
     /\ run[r].pc = "done" /\ stopped[r] = "none"
     /\ run[r].reflectionCycles = 2 /\ run[r].noiseLevel > 0
     /\ Created(r, "refinement", 2) = 1

\* what a trace holds of cycle c once the cycle has run: its reflections, one
\* memory insight and the call of the learning step
CycleRan(tr, noise, c) ==
  /\ CountIn(tr, "create", "reflection", "analysis", c) = 1
  /\ CountIn(tr, "create", "reflection", "memory_recall", c) = 1
  /\ CountIn(tr, "create", "reflection", StrategyType(c), c) = 1
  /\ CountIn(tr, "create", "reflection", "noise_injection", c) = (IF noise > 0 THEN 1 ELSE 0)
  /\ CountIn(tr, "create", "memory_insight", "", c) = 1
  /\ CountIn(tr, "call", "trainStep", "", c) = 1

\* C2: once a stop request has arrived while cycle c of a run is in flight
\* (or during the delay after it), the run starts no further cycle, and when
\* it leaves the loop cycle c has produced all its reflections, its memory
\* insight and its learning step.
C2_StopObservedAtCycleTop ==
  [][\A r \in Runs :
       stopped[r] = "cycle" =>
          /\ run'[r].cycle = run[r].cycle
          /\ (run[r].pc = "delay" /\ run'[r].pc = "finalGetReflections")
                => CycleRan(trace'[r], run[r].noiseLevel, run[r].cycle)]_vars

\* C34: a run that a stop request has reached since its start request, during
\* its startup or during a cycle, begins no further cycle.
C34_StoppedIsAbsorbing ==
  [][\A r \in Runs :
       stopped[r] # "none" => run'[r].cycle = run[r].cycle]_vars

\* C3: a run that a stop request reached during one of its cycles goes on to
\* broadcast a generation event with isComplete = true and to store exactly
\* one generated_content row, which has isComplete = true.
Finalized(r) ==
  /\ run[r].pc = "done"
  /\ Cardinality({i \in 1..Len(trace[r]) :
                    /\ trace[r][i].op = "broadcast" /\ trace[r][i].what = "generation"
                    /\ trace[r][i].type = "complete"}) = 1
  /\ CountIn(trace[r], "create", "generated_content", "complete", 0) = 1
  /\ BagCardinality(generatedContent) = 1
  /\ \A row \in BagToSet(generatedContent) :
        row.isComplete /\ row.sessionId = run[r].sessionId

C3_StoppedRunFinalizes ==
  \A r \in Runs : (stopped[r] = "cycle") ~> Finalized(r)

\* a run asked for two cycles was stopped in its first and has ended after it
C3_Witness ==
  \E r \in Runs :
     /\ stopped[r] = "cycle" /\ Finalized(r)
     /\ run[r].cycle = 1 /\ run[r].reflectionCycles = 2

\* a loop is running or finalizing
Looping(r) == run[r].pc \in {"createUserInput"} \cup CyclePcs \cup FinalPcs

\* C4: no two loops of one session are running or finalizing together (the
\* second start request is rejected before it creates or broadcasts anything).
C4_OneLoopPerSession ==
  \A a, b \in Runs :
     (a # b /\ Looping(a) /\ Looping(b)) => run[a].sessionId # run[b].sessionId

\* the reflection entries of cycle c, in order
CycleReflections(tr, c) ==
  SelectSeq(tr, LAMBDA e : e.what = "reflection" /\ e.cycle = c)

\* analysis, memory_recall, strategy/refinement and, with noise, the
\* noise_injection: each created, then broadcast
ExpectedReflections(c, noise) ==
  <<Entry("create", "reflection", "analysis", c),
    Entry("broadcast", "reflection", "analysis", c),
    Entry("create", "reflection", "memory_recall", c),
    Entry("broadcast", "reflection", "memory_recall", c),
    Entry("create", "reflection", IF c = 1 THEN "strategy" ELSE "refinement", c),
    Entry("broadcast", "reflection", IF c = 1 THEN "strategy" ELSE "refinement", c)>>
  \o (IF noise > 0
      THEN <<Entry("create", "reflection", "noise_injection", c),
             Entry("broadcast", "reflection", "noise_injection", c)>>
      ELSE <<>>)

IsPrefix(s, t) == Len(s) <= Len(t) /\ s = SubSeq(t, 1, Len(s))

\* the reflections of cycle c of run r have all been awaited
ReflectionsDone(r, c) ==
  \/ c < run[r].cycle
  \/ /\ c = run[r].cycle
     /\ run[r].pc \in {"createInsight", "gpt", "tokenize", "saveWeights",
                        "createTrainingBatch", "createLearningMetrics", "delay",
                        "done"} \cup FinalPcs

\* C9: in every cycle the reflections are created in the order analysis,
\* memory_recall, strategy/refinement, noise_injection (the last only if
\* noiseLevel > 0), and the event of each is broadcast before the next one
\* is created.
C9_ReflectionOrder ==
  \A r \in Runs : \A c \in 1..MaxCycles :
     \A seg \in {CycleReflections(trace[r], c)} :
        /\ IsPrefix(seg, ExpectedReflections(c, run[r].noiseLevel))
        /\ ReflectionsDone(r, c) => seg = ExpectedReflections(c, run[r].noiseLevel)

\* the second cycle of a run with noise has created all four reflections
C9_Witness ==
  \E r \in Runs :
     /\ run[r].cycle = 2 /\ run[r].noiseLevel > 0 /\ run[r].pc = "createInsight"
     /\ Len(CycleReflections(trace[r], 2)) = 8

\* the six insight kinds (shared/schema.ts)
InsightKinds == {"pattern_recognition", "learning", "optimization",
                 "adaptation", "correction", "enhancement"}

\* the memory insight of cycle c of run r has been awaited
InsightDone(r, c) ==
  \/ c < run[r].cycle
  \/ /\ c = run[r].cycle
     /\ run[r].pc \in {"gpt", "tokenize", "saveWeights", "createTrainingBatch",
                        "createLearningMetrics", "delay", "done"} \cup FinalPcs

\* the entries of cycle c, in order
CycleEntries(tr, c) == SelectSeq(tr, LAMBDA e : e.cycle = c)

\* an entry of the learning step
IsLearning(e) ==
  \/ e.what \in {"trainStep", "tokenizeText", "model_weights",
                 "training_batch", "learning_metrics"}
  \/ e.what = "performance_update" /\ e.type = "train"

\* C10: every cycle that has run has created exactly one memory insight, of
\* one of the six kinds, and has broadcast it as one memory_insight event
\* after all reflection events of the cycle and before its learning step.
C10_OneInsightPerCycle ==
  /\ \A row \in BagToSet(memoryInsights) : row.type \in InsightKinds
  /\ \A r \in Runs : \A c \in 1..MaxCycles :
       InsightDone(r, c) =>
         \A seg \in {CycleEntries(trace[r], c)}, n \in {2 * (3 + NoiseCount(r))} :
            /\ Len(seg) >= n + 3
            /\ \A i \in 1..Len(seg) :
                  /\ seg[i].what = "reflection" <=> i <= n
                  /\ (seg[i].what = "memory_insight" /\ seg[i].op = "create") <=> i = n + 1
                  /\ (seg[i].what = "memory_insight" /\ seg[i].op = "broadcast") <=> i = n + 2
                  /\ IsLearning(seg[i]) => i > n + 2
            /\ \E i \in 1..Len(seg) : IsLearning(seg[i])

\* two cycles have run, their insights of different kinds
C10_Witness ==
  /\ \E r \in Runs : run[r].pc = "done" /\ run[r].cycle = 2
                      /\ CountIn(trace[r], "create", "training_batch", "", 2) = 1
  /\ Cardinality(BagToSet(memoryInsights)) = 2

\* the generation events of a trace, in the order they were broadcast
GenerationEvents(tr) == SelectSeq(tr, LAMBDA e : e.what = "generation")

\* the number of whitespace-separated words of a text
WordCount(text) == Len(SelectSeq(SplitWhitespace(text), LAMBDA w : w # <<>>))

\* the streaming loop of generateFinalContent has ended for run r
Streamed(r) == run[r].pc \in {"createContent", "done"}

\* C12: once a run has streamed its final content, its last generation event
\* is the complete one and the word count it carries is the number of
\* whitespace-separated words of the content, for the empty content too.
C12_FinalEventCountsWords ==
  \A r \in Runs :
     Streamed(r) =>
       LET events == GenerationEvents(trace[r])
           last == events[Len(events)]
       IN /\ events # <<>>
          /\ last.type = "complete"
          /\ last.words = WordCount(last.content)

\* C13: the generation events of a run form a chain of growing prefixes: the
\* content of each event is a prefix of the content of the next one, only the
\* last event is complete, and once the content has been streamed there is
\* exactly one complete event, the last, which carries the full final content.
C13_GenerationPrefixChain ==
  \A r \in Runs :
     LET events == GenerationEvents(trace[r])
         complete == {i \in 1..Len(events) : events[i].type = "complete"}
     IN /\ \A i \in 1..(Len(events) - 1) :
             /\ IsPrefix(events[i].content, events[i + 1].content)
             /\ events[i].type = "partial"
        /\ \A i \in complete : events[i].content = run[r].content
        /\ Streamed(r) => events # <<>> /\ complete = {Len(events)}

\* a final content of several words has been streamed, word by word
C13_Witness ==
  /\ run["r1"].pc = "done"
  /\ failures = 0
  /\ Len(SplitSpace(run["r1"].content)) >= 2
  /\ Len(GenerationEvents(trace["r1"])) = Len(SplitSpace(run["r1"].content)) + 1
  /\ BagCardinality(generatedContent) = 1

\* the call of trainStep in cycle c of run r has returned
TrainStepDone(r, c) ==
  \/ c < run[r].cycle
  \/ c = run[r].cycle /\ run[r].pc \in {"delay", "done"} \cup FinalPcs

\* the positions of a segment that hold an entry
Positions(seg, op, what) ==
  {i \in 1..Len(seg) : seg[i].op = op /\ seg[i].what = what}

\* C11: every cycle whose learning step has returned has tokenized the input
\* once and updated the weights once (forward pass and loss lie between the
\* two), after the memory_insight event of the cycle was broadcast, and has
\* broadcast a performance_update event after the update and before the next
\* cycle.
C11_LearningStepEveryCycle ==
  \A r \in Runs : \A c \in 1..MaxCycles :
     TrainStepDone(r, c) =>
       LET seg == CycleEntries(trace[r], c)
           sent == Positions(seg, "broadcast", "memory_insight")
           tokenized == Positions(seg, "call", "tokenizeText")
           updated == Positions(seg, "create", "model_weights")
           reported == Positions(seg, "broadcast", "performance_update")
       IN /\ Cardinality(tokenized) = 1
          /\ Cardinality(updated) = 1
          /\ \A i \in sent : \A j \in tokenized : i < j
          /\ \A j \in tokenized : \A k \in updated : j < k
          /\ \E k \in updated : \E m \in reported : k < m


\* ---------------------------------------------- claims about the tokenizer
\* the ids of a vocabulary are exactly 0..size-1, each used once
VocabDense(vocab) ==
  {vocab[i].tokenId : i \in 1..Len(vocab)} = 0..(Len(vocab) - 1)

\* every entry of vocab is an entry of later with the same id
IdsKept(vocab, later) ==
  \A i \in 1..Len(vocab) :
     /\ VocabHas(later, vocab[i].token)
     /\ VocabId(later, vocab[i].token) = vocab[i].tokenId

\* C5: after any sequence of tokenizeText calls the vocabulary is a bijection
\* between its subwords and the ids 0..size-1, and a subword that has an id
\* keeps it in every later call (the subword with id 0 included).
C5_VocabularyBijection ==
  [][/\ VocabDense(vocabulary'[TokEngine])
     /\ IdsKept(vocabulary[TokEngine], vocabulary'[TokEngine])]_vars

\* C6: when a text whose subwords are all in the vocabulary is tokenized twice
\* in a row, the second call returns the token ids of the first, registers no
\* vocabulary entry and persists no token_vocabulary row.
C6_IdempotentOnKnownText ==
  [][(calls > 0 /\ lastKnown /\ lastText' = lastText)
       => /\ lastTokens' = lastTokens
          /\ lastMinted' = 0
          /\ VocabSize(vocabulary'[TokEngine]) = VocabSize(vocabulary[TokEngine])
          /\ tokenVocabulary' = tokenVocabulary]_vars

\* a fully known text of at least two tokens has just been tokenized for the
\* second time in a row, on a vocabulary of at least two entries
C6_Witness ==
  /\ repeatKnown
  /\ Len(lastTokens) >= 2
  /\ VocabSize(vocabulary[TokEngine]) >= 2

\* C7: tokenizeText of the empty text returns no token and registers no
\* vocabulary entry.
C7_EmptyInputEmptyTokens ==
  (calls > 0 /\ lastText = <<>>) => (lastTokens = <<>> /\ lastMinted = 0)

\* C22: a loop of a session for which no stop request was made starts every
\* cycle it was asked for: when its inter-cycle delay ends with cycles left,
\* the next cycle starts, whatever stop requests were made for other sessions.
\* (Specifications in which every stop request names session 1.)
C22_StopLeavesOtherSessions ==
  [][\A r \in Runs :
       (/\ run[r].sessionId # 1
        /\ run[r].pc = "delay"
        /\ run[r].cycle < run[r].reflectionCycles
        /\ run'[r] # run[r])
       => run'[r].cycle = run[r].cycle + 1]_vars

\* ------------------------------------------ claims about the learning rows
\* C23: every cycle whose learning step has returned has stored exactly one
\* training_batches row and exactly one learning_metrics row, so a run that
\* has ended after k cycles on a fresh session has left k rows of each kind,
\* whether or not the reference generation answered.
C23_LearningRowsPerCycle ==
  \A r \in Runs :
     /\ \A c \in 1..MaxCycles :
           TrainStepDone(r, c) =>
             LET seg == CycleEntries(trace[r], c)
             IN /\ Cardinality(Positions(seg, "create", "training_batch")) = 1
                /\ Cardinality(Positions(seg, "create", "learning_metrics")) = 1
     /\ run[r].pc = "done" =>
           /\ BagCardinality(RowsOfSession(trainingBatches, run[r].sessionId)) = run[r].cycle
           /\ BagCardinality(RowsOfSession(learningMetrics, run[r].sessionId)) = run[r].cycle

\* the cycle numbers of the reflections a run created, in creation order
ReflectionCycles(tr) ==
  LET created == SelectSeq(tr, LAMBDA e : e.op = "create" /\ e.what = "reflection")
  IN [i \in 1..Len(created) |-> created[i].cycle]

\* C24: the cycle numbers of the reflections of a run, in creation order,
\* never decrease, start with the 0 of the user_input reflection, and never
\* exceed the reflectionCycles the run was started with.
C24_ReflectionCyclesMonotone ==
  \A r \in Runs :
     LET cycles == ReflectionCycles(trace[r])
     IN /\ \A i \in 1..(Len(cycles) - 1) : cycles[i] <= cycles[i + 1]
        /\ cycles # <<>> => cycles[1] = 0
        /\ \A i \in 1..Len(cycles) : cycles[i] <= run[r].reflectionCycles

\* ---------------------------------------------- claims about the forward pass
\* the words of a text: its non-empty fields between blanks
WordsOf(text) == SelectSeq(SplitWhitespace(text), LAMBDA field : field # <<>>)

\* the ids of tokens that some vocabulary entry carries, in order
KnownIds(vocab, tokens) ==
  SelectSeq(tokens, LAMBDA id : \E i \in 1..Len(vocab) : vocab[i].tokenId = id)

\* C26: whatever the tokens and whatever ids the sampling draws, every word of
\* the text forwardPass returns is an entry of the engine's vocabulary, the
\* text has at most as many words as there were input tokens, and the sampled
\* ids no entry carries leave nothing in the text.
C26_ForwardPassWithinVocabulary ==
  fnCall.fn = "forwardPass" =>
    /\ \A i \in 1..Len(WordsOf(fnCall.returned)) :
          VocabHas(vocabulary[TokEngine], WordsOf(fnCall.returned)[i])
    /\ Len(WordsOf(fnCall.returned)) <= Len(fnCall.tokens)
    /\ fnCall.returned =
         JoinSpace([i \in 1..Len(KnownIds(vocabulary[TokEngine], fnCall.sampled)) |->
                      LET id == KnownIds(vocabulary[TokEngine], fnCall.sampled)[i]
                          at == CHOOSE j \in 1..Len(vocabulary[TokEngine]) :
                                  /\ vocabulary[TokEngine][j].tokenId = id
                                  /\ \A k \in 1..(j - 1) :
                                        vocabulary[TokEngine][k].tokenId # id
                      IN vocabulary[TokEngine][at].token])

\* a pass over two tokens sampled one id of the vocabulary and one that no
\* entry carries, and returned one word
C26_Witness ==
  /\ fnCall.fn = "forwardPass"
  /\ Len(fnCall.tokens) = 2
  /\ Len(KnownIds(vocabulary[TokEngine], fnCall.sampled)) = 1
  /\ Len(WordsOf(fnCall.returned)) = 1

\* ---------------------------------------------- claims about segmentation
\* the characters of the first k subwords
RECURSIVE LenSum(_, _)
LenSum(subwords, k) ==
  IF k = 0 THEN 0 ELSE LenSum(subwords, k - 1) + Len(subwords[k])

\* the lengths of the prefixes of remaining, of at most 8 characters, that are
\* vocabulary entries
Matches(vocab, remaining) ==
  {n \in 1..Min(Len(remaining), MaxSubwordLen) :
     VocabHas(vocab, SubSeq(remaining, 1, n))}

\* C27: getSubwords gives a word of at most 3 characters back as its single
\* subword; it cuts a longer word into subwords each of which is the longest
\* prefix of what remains, of at most 8 characters, that is a vocabulary entry,
\* or the first character of what remains when no prefix is an entry.
C27_GreedyLongestMatch ==
  fnCall.fn = "getSubwords" =>
    LET word == fnCall.word
        subwords == fnCall.returned
        vocab == vocabulary[TokEngine]
    IN IF Len(word) <= ShortWordLen
       THEN subwords = <<word>>
       ELSE /\ LenSum(subwords, Len(subwords)) = Len(word)
            /\ \A k \in 1..Len(subwords) :
                 LET remaining == Substring(word, LenSum(subwords, k - 1))
                     matches == Matches(vocab, remaining)
                 IN /\ Len(subwords[k]) >= 1
                    /\ subwords[k] = SubSeq(remaining, 1, Len(subwords[k]))
                    /\ IF matches = {}
                       THEN Len(subwords[k]) = 1
                       ELSE /\ Len(subwords[k]) \in matches
                            /\ \A n \in matches : n <= Len(subwords[k])

\* a word of more than 3 characters was cut against a vocabulary holding one
\* of its prefixes of several characters
C27_Witness ==
  /\ fnCall.fn = "getSubwords"
  /\ Len(fnCall.word) > ShortWordLen
  /\ \E k \in 1..Len(fnCall.returned) : Len(fnCall.returned[k]) > 1
  /\ VocabHas(vocabulary[TokEngine], <<"a">>)

\* the subwords joined in order
RECURSIVE Joined(_)
Joined(subwords) ==
  IF subwords = <<>> THEN <<>> ELSE Head(subwords) \o Joined(Tail(subwords))

\* C39: for a word that is not empty getSubwords returns subwords none of
\* which is empty and which, joined in order, are the word.
C39_SubwordsJoinToWord ==
  (fnCall.fn = "getSubwords" /\ fnCall.word # <<>>) =>
     /\ \A k \in 1..Len(fnCall.returned) : fnCall.returned[k] # <<>>
     /\ Joined(fnCall.returned) = fnCall.word

\* a word of more than 3 characters was cut into an entry of several
\* characters followed by a single character
C39_Witness ==
  /\ fnCall.fn = "getSubwords"
  /\ Len(fnCall.word) > ShortWordLen
  /\ Len(fnCall.returned) >= 2
  /\ Len(fnCall.returned[1]) >= 2
  /\ Len(fnCall.returned[Len(fnCall.returned)]) = 1
  /\ Joined(fnCall.returned) = fnCall.word

\* ---------------------------------------------- claims about the weight update
\* C28: updateWeights changes every weight entry and every bias entry of each
\* of the four layers by learningRate times that entry's own gradient, and
\* leaves no entry that is not a number.
C28_ElementWiseUpdate ==
  (fnCall.fn = "updateWeights" /\ fnCall.returned) =>
    \A l \in LayerNames :
      /\ \A i \in 1..ModelRows, j \in 1..ModelCols :
            fnCall.after[l].weights[i][j] =
              Num(fnCall.before[l].weights[i][j].val
                    - LearningRateMilli * fnCall.draws[l].weights[i][j])
      /\ \A i \in 1..ModelCols :
            fnCall.after[l].biases[i] =
              Num(fnCall.before[l].biases[i].val
                    - LearningRateMilli * fnCall.draws[l].biases[i])

\* ---------------------------------------------- claims about weight records
\* the copies of the records of layer l in a table
LayerCopies(table, l) ==
  BagCardinality([row \in {x \in BagToSet(table) : x.layerName = l} |->
                    CopiesIn(row, table)])

\* C29: every updateWeights call adds exactly one weight record for each of
\* the four layers, each carrying the engine's session id and learning rate,
\* and no step changes or removes a record saved earlier.
C29_WeightSnapshots ==
  [][/\ \A row \in BagToSet(modelWeights) :
          CopiesIn(row, modelWeights) <= CopiesIn(row, modelWeights')
     /\ UpdateWeights =>
          /\ BagCardinality(modelWeights') = BagCardinality(modelWeights) + Len(Layers)
          /\ \A l \in LayerNames :
                LayerCopies(modelWeights', l) = LayerCopies(modelWeights, l) + 1
          /\ \A row \in BagToSet(modelWeights') :
                CopiesIn(row, modelWeights') > CopiesIn(row, modelWeights) =>
                  /\ row.sessionId = engineSession[SavingEngine]
                  /\ row.learningRate = LearningRateMilli]_vars

\* two updateWeights calls have saved their records: two for every layer
C29_Witness ==
  /\ Saving
  /\ \A l \in LayerNames : LayerCopies(modelWeights, l) = 2
  /\ BagCardinality(modelWeights) = 2 * Len(Layers)

\* ---------------------------------------------- claims about the cycle's read
\* the reflections run r created in cycles before c, as its trace has them
CreatedBefore(r, c) ==
  SelectSeq(trace[r], LAMBDA e : e.op = "create" /\ e.what = "reflection" /\ e.cycle < c)

\* run r is in cycle c >= 1 and its read of the previous reflections returned
HasRead(r) == run[r].pc \in CyclePcs \ {"getReflections"}

\* C30: the previous reflections a cycle c reads hold every reflection the run
\* created before: the user_input row of cycle 0 and the rows of cycles
\* 1..c-1, which are 1 + (c-1) x (3 + [noiseLevel > 0]) rows; on a session
\* that had no row when the run started the read returns just that many.
C30_ReadsOwnReflections ==
  \A r \in Runs :
    HasRead(r) =>
      LET created == CreatedBefore(r, run[r].cycle)
          rows == [i \in 1..Len(created) |->
                     [sessionId |-> run[r].sessionId, cycle |-> created[i].cycle,
                      type |-> created[i].type]]
          perCycle == 3 + (IF run[r].noiseLevel > 0 THEN 1 ELSE 0)
      IN /\ \A i \in 1..Len(rows) :
              CopiesIn(rows[i], run[r].previousReflections)
                >= CopiesIn(rows[i], SeqToBag(rows))
         /\ rows[1].type = "user_input" /\ rows[1].cycle = 0
         /\ Len(rows) = 1 + (run[r].cycle - 1) * perCycle
         /\ BagCardinality(run[r].previousReflections) = Len(rows)

\* the second cycle of a run with noise has read five rows
C30_Witness ==
  /\ HasRead("r1")
  /\ run["r1"].cycle = 2
  /\ run["r1"].noiseLevel > 0
  /\ BagCardinality(run["r1"].previousReflections) = 5

\* ---------------------------------------------- claims about the reload
\* the awaits of a start up to the end of loadWeights
LoadPcs == {"getSession", "getModelWeights", "getTokenVocabulary"}

\* run r has created its user_input reflection or called its learning step
HasBegun(r) ==
  \E i \in 1..Len(trace[r]) :
     \/ trace[r][i].op = "create" /\ trace[r][i].what = "reflection"
     \/ trace[r][i].what = "tokenizeText"
     \/ trace[r][i].what \in {"model_weights", "training_batch", "learning_metrics"}

\* C31: on every start the reload of the session's saved vocabulary and
\* weight snapshots has completed before the user_input reflection of cycle 0
\* is created and before the first learning step runs: a run that is still
\* reloading has done neither, and a run that has done either works on an
\* engine holding every token saved for its session.
C31_ReloadBeforeFirstCycle ==
  \A r \in Runs :
    /\ run[r].pc \in LoadPcs => ~HasBegun(r)
    /\ (run[r].pc = "createUserInput" \/ HasBegun(r)) =>
         /\ engineSession[r] = run[r].sessionId
         /\ \A row \in BagToSet(tokenVocabulary) :
               row.sessionId = run[r].sessionId => VocabHas(vocabulary[r], row.token)

\* the second run of the session is about to create its user_input
\* reflection, its engine holding the token the first run saved
C31_Witness ==
  /\ run["r2"].pc = "createUserInput"
  /\ run["r1"].pc = "done"
  /\ BagCardinality(RowsOfSession(tokenVocabulary, 1)) > 0
  /\ VocabSize(vocabulary["r2"]) > 0

\* ------------------------------------- claims about the engine of a session
\* the session ids of the rows a step adds to a table
AddedSessions(table, tableAfter) ==
  {row.sessionId : row \in {x \in BagToSet(tableAfter) :
                               CopiesIn(x, tableAfter) > CopiesIn(x, table)}}

\* C35: every token_vocabulary, model_weights, training_batches and
\* learning_metrics row that a learning step of a run writes carries the
\* session id of that run, also while a loop of another session is running.
C35_EngineOwnedBySession ==
  [][\A r \in Runs :
       (run[r].pc \in TrainStepPcs /\ run'[r] # run[r]) =>
          (AddedSessions(tokenVocabulary, tokenVocabulary')
             \cup AddedSessions(modelWeights, modelWeights')
             \cup AddedSessions(trainingBatches, trainingBatches')
             \cup AddedSessions(learningMetrics, learningMetrics'))
          \subseteq {run[r].sessionId}]_vars

\* C36: the memory insight created during cycle c of a run records c as its
\* related cycle (connections.related_reflections = [c]), also while other
\* loops are running.
C36_InsightRelatedCycle ==
  [][\A r \in Runs :
       (run[r].pc = "createInsight" /\ run'[r].pc = "gpt") =>
          \E row \in BagToSet(memoryInsights') :
             /\ CopiesIn(row, memoryInsights') > CopiesIn(row, memoryInsights)
             /\ row.sessionId = run[r].sessionId
             /\ row.related = run[r].cycle]_vars

\* the place in the saved rows of the snapshot of layer l saved last; 0 when
\* none was saved
LastSaved(rows, l) ==
  LET places == {0} \cup {i \in 1..Len(rows) : rows[i].layerName = l}
  IN CHOOSE i \in places : \A j \in places : j <= i

\* C37: after loadWeights every layer that has saved snapshots holds the
\* weights and biases of the snapshot of that layer saved last, and the
\* learning rate is that of the snapshot saved last.
C37_LoadsLatestSnapshot ==
  (fnCall # NoFnCall /\ fnCall.fn = "loadWeights") =>
     /\ \A l \in LayerNames :
           LastSaved(fnCall.rows, l) # 0 =>
              /\ fnCall.engine.weights[l] = fnCall.rows[LastSaved(fnCall.rows, l)].weights
              /\ fnCall.engine.biases[l] = fnCall.rows[LastSaved(fnCall.rows, l)].biases
     /\ fnCall.engine.learningRate = fnCall.rows[Len(fnCall.rows)].learningRate

\* C38: within one session the epochs of the learning_metrics rows increase
\* strictly in creation order, over all runs of the session: a row that is
\* added carries an epoch greater than that of every row the session has.
C38_EpochsIncrease ==
  [][\A row \in BagToSet(learningMetrics') :
       CopiesIn(row, learningMetrics') > CopiesIn(row, learningMetrics) =>
          \A old \in BagToSet(RowsOfSession(learningMetrics, row.sessionId)) :
             old.epoch < row.epoch]_vars

\* ---------------------------------------------- claims about the fallback
\* the places of the trace where a generation event is marked complete
CompleteEvents(tr) ==
  {i \in 1..Len(tr) : tr[i].what = "generation" /\ tr[i].type = "complete"}

\* the places of the trace where a generated_content row is created
ContentCreated(tr) ==
  {i \in 1..Len(tr) : tr[i].op = "create" /\ tr[i].what = "generated_content"}

\* C32: when the engine's tokenize or forward pass has failed during
\* finalization the run does not fail: the template text is the final
\* content and is streamed, and one generated_content row with isComplete =
\* true and scores within 0..100 is stored, once, after the complete event.
C32_FallbackTemplate ==
  \A r \in {"r1"} :
    failures > 0 =>
      /\ run[r].pc \in {"stream", "createContent", "done"}
      /\ run[r].content = TemplateContent
      /\ \A i \in 1..Len(GenerationEvents(trace[r])) :
            IsPrefix(GenerationEvents(trace[r])[i].content, TemplateContent)
      /\ ContentCreated(trace[r]) # {} <=> run[r].pc = "done"
      /\ run[r].pc = "done" =>
            /\ ContentCreated(trace[r]) = {Len(trace[r])}
            /\ CompleteEvents(trace[r]) = {Len(trace[r]) - 1}
            /\ trace[r][Len(trace[r]) - 1].content = TemplateContent
            /\ BagCardinality(generatedContent) = 1
            /\ \A row \in BagToSet(generatedContent) :
                  /\ row.sessionId = run[r].sessionId
                  /\ row.content = TemplateContent
                  /\ row.isComplete
                  /\ row.qualityScore \in 0..100
                  /\ row.coherenceScore \in 0..100
                  /\ row.goalAlignment \in 0..100
      /\ run[r].pc # "done" => generatedContent = EmptyBag

\* the template was streamed after a failed tokenizeText and stored with the
\* highest scores the draws allow
C32_Witness ==
  /\ failures > 0
  /\ run["r1"].pc = "done"
  /\ \E row \in BagToSet(generatedContent) :
        /\ row.content = TemplateContent
        /\ row.qualityScore = 99 /\ row.coherenceScore = 99 /\ row.goalAlignment = 99

\* ---------------------------------------------- claims about append-only rows
\* every row of the table before a step is a row of the table after it, as
\* many times at least
Kept(table, tableAfter) ==
  \A row \in BagToSet(table) : CopiesIn(row, table) <= CopiesIn(row, tableAfter)

\* C25: reflections and memory insights are append-only: no step removes or
\* changes a row of either table, and the number of rows never decreases.
C25_AppendOnlyRows ==
  [][/\ Kept(reflections, reflections')
     /\ Kept(memoryInsights, memoryInsights')
     /\ BagCardinality(reflections') >= BagCardinality(reflections)
     /\ BagCardinality(memoryInsights') >= BagCardinality(memoryInsights)]_vars

\* both tables hold two rows, written while sessions were updated and ended
C25_Witness ==
  /\ BagCardinality(reflections) = 2
  /\ BagCardinality(memoryInsights) = 2
  /\ \E id \in 1..Len(sessions) : ~sessions[id].isActive

\* ---------------------------------------------- claims about the broadcast
\* observer w is attached and open
Attached(w) == w \in clients /\ sockets[w].readyState = "OPEN"

\* C21: a published event is sent once to every observer that is attached
\* and open when it is published and to no other observer; no step other than
\* a publication sends anything (nothing after a detach, no replay after an
\* attach), and attaching or detaching leaves the published sequence as it is.
C21_SendTimeFanOut ==
  [][/\ published' # published =>
          /\ Len(published') = Len(published) + 1
          /\ \A w \in Sockets :
                sockets'[w].received =
                  IF Attached(w)
                  THEN Append(sockets[w].received, published'[Len(published')])
                  ELSE sockets[w].received
     /\ published' = published =>
          \A w \in Sockets : sockets'[w].received = sockets[w].received
     /\ (clients' # clients \/ \E w \in Sockets :
                                  sockets'[w].readyState # sockets[w].readyState)
          => published' = published]_vars

\* three events were published: the first observer got the first two and
\* detached, the second attached after the first event and got the last two
C21_Witness ==
  /\ published = <<1, 2, 3>>
  /\ sockets["w1"].received = <<1, 2>>
  /\ sockets["w2"].received = <<2, 3>>
  /\ clients = {"w2"}

\* ---------------------------------------------- claims about failures
\* the positions of a trace at which a storage call of a cycle failed
PersistenceFailures(tr) ==
  {i \in 1..Len(tr) : tr[i].what = "error" /\ tr[i].cycle >= 1 /\ tr[i].type # "gpt"}

\* C16: a storage call that fails during a cycle, inside the learning step
\* included, ends the run with the error: the failure is the last entry of the
\* run (no later cycle step, no finalization) and startReflectionLoop has
\* rejected; the entries before it stay.
C16_PersistenceFailureAborts ==
  \A r \in Runs :
     \A i \in PersistenceFailures(trace[r]) :
        i = Len(trace[r]) /\ run[r].pc = "failed"

\* the awaits of the four reflection sub-steps of performReflectionCycle
ReflectionSteps == {"createAnalysis", "createMemory", "createStrategy", "createNoise"}

\* the positions of a trace at which a reflection sub-step failed
SubStepFailures(tr) ==
  {i \in 1..Len(tr) : tr[i].what = "error" /\ tr[i].type \in ReflectionSteps}

\* C17: when a reflection sub-step of a cycle fails, the error leaves
\* startReflectionLoop and the run does nothing more: no further reflection
\* and no memory insight of that cycle, no later cycle, no generation event
\* and no generated_content row.
C17_SubStepFailureAbortsRun ==
  \A r \in Runs :
     \A i \in SubStepFailures(trace[r]) :
        /\ run[r].pc = "failed"
        /\ trace[r][i].op = "throw"
        /\ i = Len(trace[r])
        /\ Positions(CycleEntries(trace[r], trace[r][i].cycle), "create", "memory_insight") = {}
        /\ \A j \in 1..Len(trace[r]) : trace[r][j].cycle <= trace[r][i].cycle
        /\ GenerationEvents(trace[r]) = <<>>
        /\ RowsOfSession(generatedContent, run[r].sessionId) = EmptyBag

\* the strategy step of a second cycle has failed, after a full first cycle
C17_Witness ==
  /\ run["r1"].pc = "failed"
  /\ trace["r1"] # <<>>
  /\ LET last == trace["r1"][Len(trace["r1"])]
     IN last.op = "throw" /\ last.type = "createStrategy" /\ last.cycle = 2
  /\ Positions(CycleEntries(trace["r1"], 1), "create", "memory_insight") # {}

\* the step in which getSession answers run r, whose session does not exist
AnswersMissingSession(r) ==
  /\ run[r].pc = "getSession"
  /\ ~SessionExists(run[r].sessionId)
  /\ run'[r] # run[r]

\* C19: a run started for a session that does not exist has done nothing
\* when getSession answers, and that answer ends it with the not-found error
\* and nothing else: no row of any table is created, no event is broadcast,
\* and isGenerating and currentCycle keep their values.
C19_MissingSessionRejected ==
  [][\A r \in Runs :
       AnswersMissingSession(r) =>
         /\ trace[r] = <<>>
         /\ run'[r].pc = "failed"
         /\ trace'[r] = <<Entry("throw", "error", "Session not found", 0)>>
         /\ UNCHANGED <<isGenerating, currentCycle>>
         /\ UNCHANGED <<reflections, memoryInsights, tokenVocabulary, modelWeights,
                        generatedContent, trainingBatches, learningMetrics>>]_vars

\* a start request for a session that does not exist has been rejected
C19_Witness ==
  /\ run["r1"].pc = "failed"
  /\ ~SessionExists(run["r1"].sessionId)
  /\ trace["r1"] = <<Entry("throw", "error", "Session not found", 0)>>

\* the cycles of run r in whose learning step the reference generation failed
GptFailures(r) ==
  {trace[r][i].cycle : i \in {j \in 1..Len(trace[r]) :
                                 trace[r][j].what = "error" /\ trace[r][j].type = "gpt"}}

\* every cycle the request asked for has run
AllCyclesRan(r) ==
  \A c \in 1..run[r].reflectionCycles : CycleRan(trace[r], run[r].noiseLevel, c)

\* C20: a run in whose learning step the reference generation has failed
\* still resolves: it goes on to run all the cycles it was asked for, unless
\* it is stopped, and finalization stores its completed generated_content row.
C20_ReferenceFailureNotSurfaced ==
  \A r \in Runs :
     (GptFailures(r) # {}) ~>
        (Finalized(r) /\ (stopped[r] = "none" => AllCyclesRan(r)))

\* the reference generation failed in the first of two cycles, the second
\* cycle ran and the run was finalized
C20_Witness ==
  /\ 1 \in GptFailures("r1")
  /\ run["r1"].reflectionCycles = 2
  /\ stopped["r1"] = "none"
  /\ AllCyclesRan("r1")
  /\ Finalized("r1")

\* C33: a run started on a session that exists ends with its completed
\* generated_content row stored, whether or not it is stopped, when every
\* await it makes is answered.
C33_StartedRunCompletes ==
  \A r \in Runs :
     (run[r].pc # "idle" /\ SessionExists(run[r].sessionId)) ~> Finalized(r)

\* a run of two cycles that nothing stopped and no reference generation
\* failed in has ended with its row stored
C33_Witness ==
  /\ Finalized("r1")
  /\ stopped["r1"] = "none"
  /\ GptFailures("r1") = {}
  /\ run["r1"].reflectionCycles = 2
  /\ run["r1"].cycle = 2

\* the request that started run r asked for no cycle or fewer
Malformed(r) == run[r].pc # "idle" /\ run[r].reflectionCycles <= 0

\* C18: a run started with a non-positive cycle count is rejected before the
\* loop: it creates no reflection, insight or generated_content row and
\* broadcasts no event.
C18_MalformedConfigRejected ==
  \A r \in Runs :
     Malformed(r) =>
       \A i \in 1..Len(trace[r]) : trace[r][i].op \notin {"create", "broadcast"}

\* ------------------------------------------ claims about the loss function
\* every field of text.split(' ') is non-empty
NonEmptyWords(text) ==
  \A i \in 1..Len(SplitSpace(text)) : SplitSpace(text)[i] # <<>>

\* C14: the result of calculateLoss lies in [0, 1]; it is 0 when the two
\* texts are the same non-empty text, and 1 when the target is the empty text
\* and the model output is a non-empty text made of non-empty words.
C14_LossRangeAndBoundaries ==
  (fnCall.fn = "calculateLoss" /\ fnCall.returned) =>
    LET x == fnCall.modelOutput
        y == fnCall.gptTarget
        loss == fnCall.loss[1]
        maxLen == fnCall.loss[2]
    IN /\ maxLen >= 1 /\ 0 <= loss /\ loss <= maxLen
       /\ (x # <<>> /\ x = y) => loss = 0
       /\ (x # <<>> /\ NonEmptyWords(x) /\ y = <<>>) => loss = maxLen

\* the loss of a text of two words against the empty text has been computed
C14_Witness ==
  /\ fnCall.fn = "calculateLoss" /\ fnCall.returned
  /\ Len(SplitSpace(fnCall.modelOutput)) >= 2
  /\ NonEmptyWords(fnCall.modelOutput)
  /\ fnCall.gptTarget = <<>>
  /\ fnCall.loss[1] = fnCall.loss[2]

\* -------------------------------------- claims about the persistence round trip
\* the fresh engine has loaded
Loaded == engineSession[FreshEngine] = TokSession

\* C15: after any sequence of tokenizeText and updateWeights calls on an
\* engine of a session, a fresh engine of that session that has called
\* loadWeights has a vocabulary of the same size and, for every layer, weights
\* and biases of the same shape as the saving engine.
C15_PersistenceRoundTrip ==
  Loaded =>
    /\ VocabSize(vocabulary[FreshEngine]) = VocabSize(vocabulary[SavingEngine])
    /\ \A l \in LayerNames :
          /\ weights[FreshEngine][l] = weights[SavingEngine][l]
          /\ biases[FreshEngine][l] = biases[SavingEngine][l]

\* the fresh engine has loaded two tokens and the layers of two saves, among
\* the rows of another session
C15_Witness ==
  /\ Loaded
  /\ VocabSize(vocabulary[FreshEngine]) = 2
  /\ BagCardinality(RowsOfSession(modelWeights, TokSession)) = 2 * Len(Layers)
  /\ RowsOfSession(tokenVocabulary, OtherSession) # EmptyBag

====
